---- MODULE Spec2Model ----
(***************************************************************************)
(* Model of the in-process optimisation core of efrate:                    *)
(*   - RequestBatcher (batcher.ts): queue, delay timer, one processBatch   *)
(*     continuation per dispatched batch, one promise handle per request;  *)
(*   - TokenBucket (utils/token-bucket.ts): lazily refilled quota, its     *)
(*     level and rate kept in binary64 as the code keeps them;             *)
(*   - RateLimiter (rate-limiter.ts): acquireToken over one bucket, with   *)
(*     the wait of autoWait as a suspended caller;                         *)
(*   - similarity (utils/similarity.ts): normalizePrompt,                  *)
(*     levenshteinDistance, calculateSimilarity;                           *)
(*   - AICache (cache.ts): insertion-ordered map with TTL, eviction and    *)
(*     fuzzy lookup;                                                       *)
(*   - EfrateClient (index.ts): complete, chat and embeddings over the     *)
(*     cache, the limiter, the batcher and the provider, each call a       *)
(*     caller suspended at its awaits.                                     *)
(* Each component has its own specification over the same variables; the   *)
(* variables of the other components stay at their constructed values.     *)
(* ClientSpec runs cache, limiter and batcher together under the client;   *)
(* StoreSpec fills the cache and stores over its keys; OptionsSpec runs    *)
(* complete() over prompts submitted under several options values.         *)
(***************************************************************************)
EXTENDS Integers, Sequences, FiniteSets, TLC

(***************************************************************************)
(* Bounds of the model.                                                    *)
(***************************************************************************)
\* number of addRequest calls explored
MaxReq == 4
\* the maxBatchSize the batcher is constructed with
MaxBatchSize == 2
\* largest bucket capacity (maxTokens) explored
MaxCapacity == 1
\* largest refill window (refillTimeMs) explored
MaxWindow == 7
\* the clock is explored up to this many milliseconds
MaxTime == 7
\* largest single clock advance between two calls
MaxStep == 2
\* largest weight passed to acquireToken
MaxWeight == 2
\* largest maxWaitTimeMs option the limiter is constructed with
MaxWait == 2
\* largest refill window of the limiter's bucket
MaxLimiterWindow == 2
\* the limiter's clock is explored up to this many milliseconds
MaxLimiterTime == 3
\* largest maxSize the cache is constructed with
MaxSize == 2
\* number of set calls explored
MaxStores == 2
\* the cache's clock is explored up to this many milliseconds
MaxCacheTime == 2
\* set calls explored where the cache is filled and stored over
MaxStoreCalls == 3
\* longest string passed to calculateSimilarity on its own
MaxLen == 3
\* complete calls explored where options vary and keys compete for the cache
MaxOptionCalls == 4
\* number of complete/chat/embeddings calls explored
MaxCalls == 3
\* the clock is explored up to this many milliseconds around the client
MaxClientTime == 2

\* the (prompt, options) pairs callers submit
Requests == {<<"p1", "o1">>, <<"p2", "o2">>}
Results == {"r1", "r2"}
Errors == {"e1", "e2"}
Reasons == {"Queue cleared", "shutdown"}

\* what results[index] yields past the end of the results array
Undefined == "undefined"
\* the null timer handle
NoTimer == 0

VARIABLES
    \* ---- RequestBatcher fields ----
    queue,          \* this.queue: sequence of QueuedRequest
    batchTimer,     \* this.batchTimer: NoTimer or the handle of the last timer armed
    isProcessing,   \* this.isProcessing
    idCounter,      \* this.idCounter
    \* ---- runtime around the batcher ----
    timers,         \* timers pending in the event loop: set of [handle, delay]
    timerSeq,       \* number of setTimeout calls so far (handles are fresh)
    inflight,       \* suspended processBatch continuations: set of [call, batch]
    calls,          \* log of processBatchFn invocations and their outcome
    settled,        \* per request id: the resolve/reject calls made on its handle
    submitted,      \* log of addRequest arguments; entry i belongs to id i
    \* ---- TokenBucket fields ----
    tokens,         \* this.tokens
    maxTokens,      \* this.maxTokens
    refillTimeMs,   \* constructor argument refillTimeMs
    refillRate,     \* this.refillRate
    lastRefill,     \* this.lastRefill
    now,            \* Date.now()
    bucketOp,       \* the last bucket call, its argument and what it returned
    emptiedAt,      \* when a take last left the bucket empty (-1: not empty since)
    \* ---- RateLimiter fields and its callers ----
    autoWait,       \* this.autoWait
    maxWaitTimeMs,  \* this.maxWaitTimeMs
    acquires,       \* per caller: where its acquireToken call stands
    limiterOp,      \* the last step of an acquireToken call
    granted,        \* tokens handed out by acquireToken calls so far
    \* ---- AICache fields ----
    cache,          \* this.cache: the entries [key, response, timestamp] in Map order
    maxSize,        \* this.maxSize
    ttlMs,          \* this.ttlMs
    similarityThreshold,  \* this.similarityThreshold
    enableFuzzyMatching,  \* this.enableFuzzyMatching
    cacheOp,        \* the last call made on the cache from outside the client,
                    \* its argument and what it returned
    stores,         \* number of set calls made from outside the client so far
    \* ---- similarity ----
    scored,         \* the last calculateSimilarity call: its arguments and result
    \* ---- EfrateClient fields and its callers ----
    enableCache,        \* this.enableCache
    enableRateLimiting, \* this.enableRateLimiting
    enableBatching,     \* this.enableBatching
    clientCalls,    \* per caller: where its complete/chat/embeddings call stands
    issued,         \* number of client calls made so far
    written,        \* per key: the responses complete() stored since the key
                    \* was last absent from the cache
    invoked         \* number of provider method invocations started so far

batcherVars == <<queue, batchTimer, isProcessing, idCounter, timers, timerSeq,
                 inflight, calls, settled, submitted>>
bucketVars == <<tokens, maxTokens, refillTimeMs, refillRate, lastRefill, now,
                bucketOp, emptiedAt>>
limiterVars == <<autoWait, maxWaitTimeMs, acquires, limiterOp, granted>>
cacheVars == <<cache, maxSize, ttlMs, similarityThreshold, enableFuzzyMatching,
               cacheOp, stores>>
clientVars == <<enableCache, enableRateLimiting, enableBatching, clientCalls, issued,
                written, invoked>>
vars == <<queue, batchTimer, isProcessing, idCounter, timers, timerSeq,
          inflight, calls, settled, submitted,
          tokens, maxTokens, refillTimeMs, refillRate, lastRefill, now,
          bucketOp, emptiedAt,
          autoWait, maxWaitTimeMs, acquires, limiterOp, granted,
          cache, maxSize, ttlMs, similarityThreshold, enableFuzzyMatching,
          cacheOp, stores, scored,
          enableCache, enableRateLimiting, enableBatching, clientCalls, issued,
          written, invoked>>

Min(a, b) == IF a <= b THEN a ELSE b
Max(a, b) == IF a >= b THEN a ELSE b

Ids == 1..MaxReq

(***************************************************************************)
(* RequestBatcher                                                          *)
(***************************************************************************)
\* configured values (constructor)
maxBatchSize == MaxBatchSize
\* delay of the accumulation timer; only its being non-zero matters here
maxDelayMs == 100

\* the batcher's own fields and the runtime state its methods touch
BatcherState ==
    [queue |-> queue, batchTimer |-> batchTimer, isProcessing |-> isProcessing,
     timers |-> timers, timerSeq |-> timerSeq, inflight |-> inflight,
     calls |-> calls, settled |-> settled]

\* setTimeout(() => this.processBatch(), delay), handle stored in batchTimer
SetBatchTimer(s, delay) ==
    [s EXCEPT !.timerSeq = s.timerSeq + 1,
              !.timers = s.timers \cup {[handle |-> s.timerSeq + 1, delay |-> delay]},
              !.batchTimer = s.timerSeq + 1]

\* variant: clearTimeout leaves the timer pending
ClearTimeoutKeeps(s, handle) == s

\* clearTimeout(handle): a null or stale handle cancels nothing
ClearTimeout(s, handle) ==
    [s EXCEPT !.timers = {t \in s.timers : t.handle # handle}]

\* item.resolve(value) / item.reject(error), made on behalf of `by`
\* (by = index of the processBatchFn call, or 0 for clearQueue)
SettleEvent(kind, value, by) == [kind |-> kind, value |-> value, by |-> by]

\* results[index] of a JavaScript array (0-based index + 1)
ResultAt(results, i) == IF i <= Len(results) THEN results[i] ELSE Undefined

\* variant: item i is resolved with the result at the mirrored index
ResolveAllReversed(st, batch, results, by) ==
    [id \in Ids |->
        IF \E i \in 1..Len(batch) : batch[i].id = id
        THEN LET i == CHOOSE j \in 1..Len(batch) : batch[j].id = id
             IN  Append(st[id],
                        SettleEvent("resolve", ResultAt(results, Len(batch) + 1 - i), by))
        ELSE st[id]]

\* batch.forEach((item, index) => item.resolve(results[index]))
ResolveAll(st, batch, results, by) ==
    [id \in Ids |->
        IF \E i \in 1..Len(batch) : batch[i].id = id
        THEN LET i == CHOOSE j \in 1..Len(batch) : batch[j].id = id
             IN  Append(st[id], SettleEvent("resolve", ResultAt(results, i), by))
        ELSE st[id]]

\* batch.forEach(item => item.reject(error)); also the loop of clearQueue
RejectAll(st, batch, error, by) ==
    [id \in Ids |->
        IF \E i \in 1..Len(batch) : batch[i].id = id
        THEN Append(st[id], SettleEvent("reject", error, by))
        ELSE st[id]]

\* variant: the finally block schedules no follow-up cycle
ProcessBatchFinallyNoTimer(s) == [s EXCEPT !.isProcessing = FALSE]

\* variant: the follow-up cycle waits maxDelayMs like a first request
ProcessBatchFinallyDelayed(s) ==
    LET s1 == [s EXCEPT !.isProcessing = FALSE]
    IN  IF Len(s1.queue) > 0 THEN SetBatchTimer(s1, maxDelayMs) ELSE s1

\* the finally block of processBatch
ProcessBatchFinally(s) ==
    LET s1 == [s EXCEPT !.isProcessing = FALSE]
    IN  IF Len(s1.queue) > 0 THEN SetBatchTimer(s1, 0) ELSE s1

\* variant: the removed items are handed over newest first
SpliceReversed(q) ==
    LET n == Min(maxBatchSize, Len(q))
    IN  [taken |-> [i \in 1..n |-> q[n + 1 - i]],
         rest |-> SubSeq(q, n + 1, Len(q))]

\* variant: the whole queue is taken, whatever its length
SpliceAll(q) == [taken |-> q, rest |-> <<>>]

\* this.queue.splice(0, this.maxBatchSize): the removed items and what stays queued
Splice(q) ==
    [taken |-> SubSeq(q, 1, Min(maxBatchSize, Len(q))),
     rest |-> SubSeq(q, Min(maxBatchSize, Len(q)) + 1, Len(q))]

\* variant: processBatch leaves the handle of the fired timer in batchTimer
ProcessBatchKeepsHandle(s, mode, error) ==
    IF s.isProcessing \/ Len(s.queue) = 0 THEN s
    ELSE
      LET sp == Splice(s.queue)
          batch == sp.taken
          c == Len(s.calls) + 1
          call == [prompts |-> [i \in 1..Len(batch) |-> batch[i].prompt],
                   optionsArray |-> [i \in 1..Len(batch) |-> batch[i].options],
                   ids |-> [i \in 1..Len(batch) |-> batch[i].id],
                   left |-> Len(sp.rest),
                   status |-> IF mode = "throw" THEN "rejected" ELSE "pending",
                   results |-> <<>>,
                   error |-> IF mode = "throw" THEN error ELSE ""]
          s1 == [s EXCEPT !.isProcessing = TRUE,
                          !.queue = sp.rest,
                          !.calls = Append(s.calls, call)]
      IN  IF mode = "throw"
          THEN ProcessBatchFinally(
                 [s1 EXCEPT !.settled = RejectAll(s1.settled, batch, error, c)])
          ELSE [s1 EXCEPT !.inflight = s1.inflight \cup {[call |-> c, batch |-> batch]}]

\* variant: processBatch does not set isProcessing
ProcessBatchNoFlag(s, mode, error) ==
    IF s.isProcessing \/ Len(s.queue) = 0 THEN s
    ELSE
      LET sp == Splice(s.queue)
          batch == sp.taken
          c == Len(s.calls) + 1
          call == [prompts |-> [i \in 1..Len(batch) |-> batch[i].prompt],
                   optionsArray |-> [i \in 1..Len(batch) |-> batch[i].options],
                   ids |-> [i \in 1..Len(batch) |-> batch[i].id],
                   left |-> Len(sp.rest),
                   status |-> IF mode = "throw" THEN "rejected" ELSE "pending",
                   results |-> <<>>,
                   error |-> IF mode = "throw" THEN error ELSE ""]
          s1 == [s EXCEPT !.batchTimer = NoTimer,
                          !.queue = sp.rest,
                          !.calls = Append(s.calls, call)]
      IN  IF mode = "throw"
          THEN ProcessBatchFinally(
                 [s1 EXCEPT !.settled = RejectAll(s1.settled, batch, error, c)])
          ELSE [s1 EXCEPT !.inflight = s1.inflight \cup {[call |-> c, batch |-> batch]}]

\* processBatch() up to its await: the synchronous part run by the caller.
\* mode = "await": processBatchFn returned a promise, the method suspends;
\* mode = "throw": processBatchFn threw synchronously with `error`, so the
\* catch and finally blocks run in the same step.
\* The call log also keeps `left`, the queue length right after the splice.
ProcessBatch(s, mode, error) ==
    IF s.isProcessing \/ Len(s.queue) = 0 THEN s
    ELSE
      LET sp == Splice(s.queue)
          batch == sp.taken
          c == Len(s.calls) + 1
          call == [prompts |-> [i \in 1..Len(batch) |-> batch[i].prompt],
                   optionsArray |-> [i \in 1..Len(batch) |-> batch[i].options],
                   ids |-> [i \in 1..Len(batch) |-> batch[i].id],
                   left |-> Len(sp.rest),
                   status |-> IF mode = "throw" THEN "rejected" ELSE "pending",
                   results |-> <<>>,
                   error |-> IF mode = "throw" THEN error ELSE ""]
          s1 == [s EXCEPT !.isProcessing = TRUE,
                          !.batchTimer = NoTimer,
                          !.queue = sp.rest,
                          !.calls = Append(s.calls, call)]
      IN  IF mode = "throw"
          THEN ProcessBatchFinally(
                 [s1 EXCEPT !.settled = RejectAll(s1.settled, batch, error, c)])
          ELSE [s1 EXCEPT !.inflight = s1.inflight \cup {[call |-> c, batch |-> batch]}]

\* writes a BatcherState back into the variables
Commit(s) ==
    /\ queue' = s.queue
    /\ batchTimer' = s.batchTimer
    /\ isProcessing' = s.isProcessing
    /\ timers' = s.timers
    /\ timerSeq' = s.timerSeq
    /\ inflight' = s.inflight
    /\ calls' = s.calls
    /\ settled' = s.settled

\* how a processBatchFn invocation started by a step may behave: return a
\* promise, or throw one of `errors` synchronously
DispatchModes(errors) == {<<"await", "">>} \cup {<<"throw", e>> : e \in errors}

\* the queue has reached maxBatchSize and no dispatch is in flight
SizeReached(s) == Len(s.queue) >= maxBatchSize /\ ~s.isProcessing

\* variant: the dispatch starts only once the queue is longer than maxBatchSize
EnqueueLate(s0, item, m) ==
    LET s1 == [s0 EXCEPT !.queue = Append(s0.queue, item)]
        s2 == IF s1.batchTimer = NoTimer /\ ~s1.isProcessing
              THEN SetBatchTimer(s1, maxDelayMs) ELSE s1
    IN  IF Len(s2.queue) > maxBatchSize /\ ~s2.isProcessing
        THEN ProcessBatch(
               [ClearTimeout(s2, s2.batchTimer) EXCEPT !.batchTimer = NoTimer],
               m[1], m[2])
        ELSE s2

\* the executor of addRequest: push, arm the delay timer, dispatch at once
\* when the queue has reached maxBatchSize; m is how a dispatch it starts behaves
Enqueue(s0, item, m) ==
    LET s1 == [s0 EXCEPT !.queue = Append(s0.queue, item)]
        s2 == IF s1.batchTimer = NoTimer /\ ~s1.isProcessing
              THEN SetBatchTimer(s1, maxDelayMs) ELSE s1
    IN  IF SizeReached(s2)
        THEN ProcessBatch(
               [ClearTimeout(s2, s2.batchTimer) EXCEPT !.batchTimer = NoTimer],
               m[1], m[2])
        ELSE s2

\* addRequest(prompt, options); a dispatch it starts behaves as one of `modes`
AddRequest(prompt, options, modes) ==
    /\ idCounter < MaxReq
    /\ idCounter' = idCounter + 1
    /\ submitted' = Append(submitted, [prompt |-> prompt, options |-> options])
    /\ \E m \in modes :
        LET s0 == BatcherState
            item == [id |-> idCounter + 1, prompt |-> prompt, options |-> options]
        IN  /\ (m[1] = "throw" =>
                   SizeReached([s0 EXCEPT !.queue = Append(s0.queue, item)]))
            /\ Commit(Enqueue(s0, item, m))
    /\ UNCHANGED <<bucketVars, limiterVars, cacheVars, scored, clientVars>>

\* the callback of the pending timer t, () => this.processBatch(), has run
Fired(s0, t, m) == ProcessBatch([s0 EXCEPT !.timers = s0.timers \ {t}], m[1], m[2])

\* the event loop runs the callback of a pending timer
TimerFire(modes) ==
    /\ \E t \in timers : \E m \in modes :
        /\ (m[1] = "throw" => (~isProcessing /\ Len(queue) > 0))
        /\ Commit(Fired(BatcherState, t, m))
    /\ UNCHANGED <<idCounter, submitted, bucketVars, limiterVars, cacheVars, scored, clientVars>>

\* the result arrays a BatchProcessorFn may produce for n prompts (same length)
ResultArrays(values, n) == [1..n -> values]

\* processBatch after its await, for the suspended call f whose promise
\* fulfilled with `results`: the forEach of resolve and the finally block
Fulfilled(s0, f, results) ==
    ProcessBatchFinally(
        [s0 EXCEPT !.inflight = s0.inflight \ {f},
                   !.calls[f.call].status = "fulfilled",
                   !.calls[f.call].results = results,
                   !.settled = ResolveAll(s0.settled, f.batch, results, f.call)])

\* the promise of processBatchFn fulfils with `results`: the code after the await
BatchResolve(values) ==
    /\ \E f \in inflight : \E results \in ResultArrays(values, Len(f.batch)) :
        Commit(Fulfilled(BatcherState, f, results))
    /\ UNCHANGED <<idCounter, submitted, bucketVars, limiterVars, cacheVars, scored, clientVars>>

\* variant: the catch block also rejects what is still queued
BatchRejectAlsoQueue(errors) ==
    /\ \E f \in inflight : \E error \in errors :
        LET s0 == BatcherState
            s1 == [s0 EXCEPT
                     !.inflight = s0.inflight \ {f},
                     !.calls[f.call].status = "rejected",
                     !.calls[f.call].error = error,
                     !.settled = RejectAll(RejectAll(s0.settled, f.batch, error, f.call),
                                           s0.queue, error, f.call)]
        IN  Commit(ProcessBatchFinally(s1))
    /\ UNCHANGED <<idCounter, submitted, bucketVars, limiterVars, cacheVars, scored, clientVars>>

\* processBatch after its await, for the suspended call f whose promise
\* rejected with `error`: the catch block and the finally block
Rejected(s0, f, error) ==
    ProcessBatchFinally(
        [s0 EXCEPT !.inflight = s0.inflight \ {f},
                   !.calls[f.call].status = "rejected",
                   !.calls[f.call].error = error,
                   !.settled = RejectAll(s0.settled, f.batch, error, f.call)])

\* the promise of processBatchFn rejects with `error`: the catch block
BatchReject(errors) ==
    /\ \E f \in inflight : \E error \in errors :
        Commit(Rejected(BatcherState, f, error))
    /\ UNCHANGED <<idCounter, submitted, bucketVars, limiterVars, cacheVars, scored, clientVars>>

\* get queueSize()
queueSize == Len(queue)

\* variant: the rejected items stay in the queue
ClearQueueKeepsQueue(reason) ==
    /\ LET s0 == BatcherState
           s1 == [s0 EXCEPT !.settled = RejectAll(s0.settled, s0.queue, reason, 0)]
           s2 == IF s1.batchTimer # NoTimer
                 THEN [ClearTimeout(s1, s1.batchTimer) EXCEPT !.batchTimer = NoTimer]
                 ELSE s1
       IN  Commit(s2)
    /\ UNCHANGED <<idCounter, submitted, bucketVars, limiterVars, cacheVars, scored, clientVars>>

\* variant: the pending timer is not cancelled
ClearQueueKeepsTimer(reason) ==
    /\ LET s0 == BatcherState
           s1 == [s0 EXCEPT !.settled = RejectAll(s0.settled, s0.queue, reason, 0),
                            !.queue = <<>>]
       IN  Commit(s1)
    /\ UNCHANGED <<idCounter, submitted, bucketVars, limiterVars, cacheVars, scored, clientVars>>

\* variant: the items of the batches in flight are rejected too
ClearQueueRejectsInflight(reason) ==
    /\ LET s0 == BatcherState
           s1 == [s0 EXCEPT
                    !.settled = [id \in Ids |->
                        IF \/ \E i \in 1..Len(s0.queue) : s0.queue[i].id = id
                           \/ \E f \in s0.inflight : \E i \in 1..Len(f.batch) :
                                 f.batch[i].id = id
                        THEN Append(s0.settled[id], SettleEvent("reject", reason, 0))
                        ELSE s0.settled[id]],
                    !.queue = <<>>]
           s2 == IF s1.batchTimer # NoTimer
                 THEN [ClearTimeout(s1, s1.batchTimer) EXCEPT !.batchTimer = NoTimer]
                 ELSE s1
       IN  Commit(s2)
    /\ UNCHANGED <<idCounter, submitted, bucketVars, limiterVars, cacheVars, scored, clientVars>>

\* clearQueue(reason)
ClearQueue(reason) ==
    /\ LET s0 == BatcherState
           s1 == [s0 EXCEPT !.settled = RejectAll(s0.settled, s0.queue, reason, 0),
                            !.queue = <<>>]
           s2 == IF s1.batchTimer # NoTimer
                 THEN [ClearTimeout(s1, s1.batchTimer) EXCEPT !.batchTimer = NoTimer]
                 ELSE s1
       IN  Commit(s2)
    /\ UNCHANGED <<idCounter, submitted, bucketVars, limiterVars, cacheVars, scored, clientVars>>

BatcherFieldsInit ==
    /\ queue = <<>>
    /\ batchTimer = NoTimer
    /\ isProcessing = FALSE
    /\ idCounter = 0
    /\ timers = {}
    /\ timerSeq = 0
    /\ inflight = {}
    /\ calls = <<>>
    /\ settled = [id \in Ids |-> <<>>]
    /\ submitted = <<>>

(***************************************************************************)
(* JavaScript numbers.  The bucket computes with IEEE-754 binary64 values; *)
(* each is kept here exactly, as the natural number value * 2^FracBits     *)
(* written in limbs of 15 bits (least significant first, no leading zero   *)
(* limb, <<>> for 0).  Every operation computes the exact result and then  *)
(* rounds it to 53 significant bits, to nearest, ties to even.             *)
(***************************************************************************)
\* limb base, 2^15
Base == 32768
\* fractional bits kept: enough while every value is zero or at least 2^-7
FracBits == 60
\* guard bits of the integer division below
GuardBits == 30

RECURSIVE Pow2(_)
Pow2(n) == IF n = 0 THEN 1 ELSE 2 * Pow2(n - 1)

RECURSIVE IntBitLen(_)
IntBitLen(n) == IF n = 0 THEN 0 ELSE 1 + IntBitLen(n \div 2)

Limb(a, i) == IF i <= Len(a) THEN a[i] ELSE 0

RECURSIVE BNNorm(_)
BNNorm(a) ==
    IF Len(a) > 0 /\ a[Len(a)] = 0 THEN BNNorm(SubSeq(a, 1, Len(a) - 1)) ELSE a

\* 0 <= n < 2^30
BNFromInt(n) == BNNorm(<<n % Base, n \div Base>>)

RECURSIVE BNAddFrom(_, _, _, _)
BNAddFrom(a, b, i, carry) ==
    IF i > Len(a) /\ i > Len(b)
    THEN IF carry = 0 THEN <<>> ELSE <<carry>>
    ELSE LET sum == Limb(a, i) + Limb(b, i) + carry
         IN  <<sum % Base>> \o BNAddFrom(a, b, i + 1, sum \div Base)

BNAdd(a, b) == BNAddFrom(a, b, 1, 0)

RECURSIVE BNSubFrom(_, _, _, _)
BNSubFrom(a, b, i, borrow) ==
    IF i > Len(a) THEN <<>>
    ELSE LET d == a[i] - Limb(b, i) - borrow
         IN  <<IF d < 0 THEN d + Base ELSE d>>
               \o BNSubFrom(a, b, i + 1, IF d < 0 THEN 1 ELSE 0)

\* a - b, for a >= b
BNSub(a, b) == BNNorm(BNSubFrom(a, b, 1, 0))

RECURSIVE BNCmpFrom(_, _, _)
BNCmpFrom(a, b, i) ==
    IF i = 0 THEN 0
    ELSE IF a[i] # b[i] THEN (IF a[i] < b[i] THEN -1 ELSE 1)
    ELSE BNCmpFrom(a, b, i - 1)

\* -1, 0, 1 as a < b, a = b, a > b
BNCmp(a, b) ==
    IF Len(a) # Len(b) THEN (IF Len(a) < Len(b) THEN -1 ELSE 1)
    ELSE BNCmpFrom(a, b, Len(a))

RECURSIVE BNMulSmallFrom(_, _, _, _)
BNMulSmallFrom(a, k, i, carry) ==
    IF i > Len(a)
    THEN IF carry = 0 THEN <<>> ELSE <<carry>>
    ELSE LET p == a[i] * k + carry
         IN  <<p % Base>> \o BNMulSmallFrom(a, k, i + 1, p \div Base)

\* a * k, for 0 <= k <= Base
BNMulSmall(a, k) == IF k = 0 THEN <<>> ELSE BNMulSmallFrom(a, k, 1, 0)

\* a * 2^n
BNShl(a, n) ==
    IF a = <<>> THEN <<>>
    ELSE [i \in 1..(n \div 15) |-> 0] \o BNMulSmall(a, Pow2(n % 15))

RECURSIVE BNDivSmallFrom(_, _, _, _)
BNDivSmallFrom(a, k, i, r) ==
    IF i = 0 THEN <<>>
    ELSE LET cur == r * Base + a[i]
         IN  BNDivSmallFrom(a, k, i - 1, cur % k) \o <<cur \div k>>

\* floor(a / k), for 0 < k <= Base
BNDivSmall(a, k) == BNNorm(BNDivSmallFrom(a, k, Len(a), 0))

RECURSIVE BNModSmallFrom(_, _, _, _)
BNModSmallFrom(a, k, i, r) ==
    IF i = 0 THEN r ELSE BNModSmallFrom(a, k, i - 1, (r * Base + a[i]) % k)

\* a mod k, for 0 < k <= Base
BNModSmall(a, k) == BNModSmallFrom(a, k, Len(a), 0)

\* floor(a / 2^n)
BNShr(a, n) ==
    IF n \div 15 >= Len(a) THEN <<>>
    ELSE BNDivSmall(SubSeq(a, n \div 15 + 1, Len(a)), Pow2(n % 15))

BNBitLen(a) == IF a = <<>> THEN 0 ELSE 15 * (Len(a) - 1) + IntBitLen(a[Len(a)])

\* the binary64 value nearest to the exact value a (ties to even): a is cut
\* to its 53 leading bits and raised by one unit of the last of them when the
\* d bits cut off are more than half a unit, or half a unit and the last bit
\* kept is odd.  Fewer than 15 bits are cut within the lowest limb.
Round53(a) ==
    LET d == BNBitLen(a) - 53
    IN  IF d <= 0 THEN a
        ELSE IF d < 15
        THEN LET p == Pow2(d)
                 low == a[1] % p
                 up == 2 * low > p \/ (2 * low = p /\ (a[1] \div p) % 2 = 1)
                 cut == [a EXCEPT ![1] = a[1] - low]
             IN  IF low = 0 THEN a
                 ELSE IF up THEN BNAdd(cut, BNFromInt(p)) ELSE cut
        ELSE LET q == BNShr(a, d)
                 low == BNSub(a, BNShl(q, d))
                 c == BNCmp(low, BNShl(<<1>>, d - 1))
                 up == c > 0 \/ (c = 0 /\ q[1] % 2 = 1)
             IN  BNShl(IF up THEN BNAdd(q, <<1>>) ELSE q, d)

\* the number n, an integer 0 <= n < 2^30
FromInt(n) == BNShl(BNFromInt(n), FracBits)
\* x + y
FAdd(x, y) == Round53(BNAdd(x, y))
\* x - y, for x >= y
FSub(x, y) == Round53(BNSub(x, y))
\* k * x, for an integer 0 <= k <= Base
FMulInt(k, x) == Round53(BNMulSmall(x, k))
\* x >= y
FGeq(x, y) == BNCmp(x, y) >= 0
\* Math.min(x, y)
FMin(x, y) == IF BNCmp(x, y) <= 0 THEN x ELSE y

\* n / k for integers 0 < n < 2^30, 0 < k <= Base with n / k >= 2^-7: the
\* quotient is cut after GuardBits more bits, a sticky bit records a non-zero
\* remainder, and the result is rounded
FDivInt(n, k) ==
    LET num == BNShl(BNFromInt(n), FracBits + GuardBits)
        sticky == IF BNModSmall(num, k) # 0 THEN <<1>> ELSE <<>>
    IN  BNShr(Round53(BNAdd(BNShl(BNDivSmall(num, k), 1), sticky)), GuardBits + 1)

\* fl(x / y) <= W, for x, y > 0 and an integer W >= 1.  W is a binary64 value
\* with an even mantissa, so the quotient rounds to W or below exactly when
\* x / y <= W + ulp(W) / 2, where ulp(W) / 2 = 2^-(54 - bitlength(W)); this
\* holds when x / y <= W and fails when x / y >= W + 1
FQuotientLeq(x, y, W) ==
    LET wy == BNMulSmall(y, W)
        sh == 54 - IntBitLen(W)
    IN  IF BNCmp(x, wy) <= 0 THEN TRUE
        ELSE IF BNCmp(x, BNAdd(wy, y)) >= 0 THEN FALSE
        ELSE BNCmp(BNShl(x, sh), BNAdd(BNShl(wy, sh), y)) <= 0

RECURSIVE FCeilQuotientFrom(_, _, _)
FCeilQuotientFrom(x, y, W) ==
    IF FQuotientLeq(x, y, W) THEN W ELSE FCeilQuotientFrom(x, y, W + 1)

\* Math.ceil(x / y), for x, y > 0: the least integer not below fl(x / y)
FCeilQuotient(x, y) == FCeilQuotientFrom(x, y, 1)

(***************************************************************************)
(* TokenBucket.  this.tokens and this.refillRate are binary64 numbers,     *)
(* held as the exact values of the arithmetic above; counts, capacities    *)
(* and times are integers.                                                 *)
(***************************************************************************)
\* the number 0
Zero == <<>>
\* the result of a subtraction that went below zero
Negative == <<-1>>

\* x - y as the code computes it where it may go negative
FSubSigned(x, y) == IF BNCmp(x, y) < 0 THEN Negative ELSE FSub(x, y)

\* new TokenBucket(maxTokens, refillTimeMs), constructed at time 0
BucketFieldsInit(cap, window) ==
    /\ maxTokens = cap
    /\ refillTimeMs = window
    /\ refillRate = FDivInt(cap, window)
    /\ tokens = FromInt(cap)
    /\ lastRefill = 0
    /\ now = 0
    /\ emptiedAt = -1
    /\ bucketOp = [op |-> "new", count |-> 0, before |-> FromInt(cap),
                   elapsed |-> 0, ok |-> TRUE, level |-> FromInt(cap), wait |-> 0]

\* variant: the refill is not clamped to the capacity
RefillNoClamp ==
    LET elapsedMs == now - lastRefill
    IN  IF elapsedMs > 0
        THEN [tokens |-> FAdd(tokens, FMulInt(elapsedMs, refillRate)), lastRefill |-> now]
        ELSE [tokens |-> tokens, lastRefill |-> lastRefill]

\* variant: the refill does not move lastRefill
RefillKeepsLastRefill ==
    LET elapsedMs == now - lastRefill
    IN  IF elapsedMs > 0
        THEN [tokens |-> FMin(FromInt(maxTokens),
                              FAdd(tokens, FMulInt(elapsedMs, refillRate))),
              lastRefill |-> lastRefill]
        ELSE [tokens |-> tokens, lastRefill |-> lastRefill]

\* refill(): the bucket fields [tokens, lastRefill] after the call
Refill ==
    LET elapsedMs == now - lastRefill
    IN  IF elapsedMs > 0
        THEN [tokens |-> FMin(FromInt(maxTokens),
                              FAdd(tokens, FMulInt(elapsedMs, refillRate))),
              lastRefill |-> now]
        ELSE [tokens |-> tokens, lastRefill |-> lastRefill]

\* what a bucket call records about itself: the level and the time since the
\* last refill it found, its argument, and what it returned
BucketCall(op, count, ok, level, wait) ==
    [op |-> op, count |-> count, before |-> tokens, elapsed |-> now - lastRefill,
     ok |-> ok, level |-> level, wait |-> wait]

\* the time at which a take left the bucket empty, -1 once a later take found
\* tokens in it again
EmptiedAt(count, ok, left) ==
    IF ok /\ left = Zero THEN now
    ELSE IF ok /\ count > 0 THEN -1
    ELSE emptiedAt

\* variant: a take needs strictly more than count tokens
TakeTokensStrict(count) ==
    /\ \E b \in {Refill} :
           IF ~FGeq(FromInt(count), b.tokens)
           THEN /\ tokens' = FSubSigned(b.tokens, FromInt(count))
                /\ lastRefill' = b.lastRefill
                /\ bucketOp' = BucketCall("takeTokens", count, TRUE, Zero, 0)
                /\ emptiedAt' = EmptiedAt(count, TRUE, tokens')
           ELSE /\ tokens' = b.tokens
                /\ lastRefill' = b.lastRefill
                /\ bucketOp' = BucketCall("takeTokens", count, FALSE, Zero, 0)
                /\ emptiedAt' = EmptiedAt(count, FALSE, tokens')
    /\ UNCHANGED <<maxTokens, refillTimeMs, refillRate, now, limiterVars, cacheVars,
                   batcherVars, scored, clientVars>>

\* takeTokens(count)
TakeTokens(count) ==
    /\ \E b \in {Refill} :
           IF FGeq(b.tokens, FromInt(count))
           THEN /\ tokens' = FSubSigned(b.tokens, FromInt(count))
                /\ lastRefill' = b.lastRefill
                /\ bucketOp' = BucketCall("takeTokens", count, TRUE, Zero, 0)
                /\ emptiedAt' = EmptiedAt(count, TRUE, tokens')
           ELSE /\ tokens' = b.tokens
                /\ lastRefill' = b.lastRefill
                /\ bucketOp' = BucketCall("takeTokens", count, FALSE, Zero, 0)
                /\ emptiedAt' = EmptiedAt(count, FALSE, tokens')
    /\ UNCHANGED <<maxTokens, refillTimeMs, refillRate, now, limiterVars, cacheVars,
                   batcherVars, scored, clientVars>>

\* getTokens(): level is the returned number
GetTokens ==
    /\ \E b \in {Refill} :
           /\ tokens' = b.tokens
           /\ lastRefill' = b.lastRefill
           /\ bucketOp' = BucketCall("getTokens", 0, TRUE, b.tokens, 0)
    /\ UNCHANGED <<maxTokens, refillTimeMs, refillRate, now, emptiedAt,
                   limiterVars, cacheVars, batcherVars, scored, clientVars>>

\* the number getWaitTimeMs(count) returns for the refilled level level:
\* Math.max(0, count - level) is 0 exactly when level >= count
WaitTimeMs(count, level) ==
    IF FGeq(level, FromInt(count)) THEN 0
    ELSE FCeilQuotient(FSub(FromInt(count), level), refillRate)

\* getWaitTimeMs(count): wait is the returned number of milliseconds
GetWaitTimeMs(count) ==
    /\ \E b \in {Refill} :
           /\ tokens' = b.tokens
           /\ lastRefill' = b.lastRefill
           /\ bucketOp' = BucketCall("getWaitTimeMs", count, TRUE, Zero,
                                     WaitTimeMs(count, b.tokens))
    /\ UNCHANGED <<maxTokens, refillTimeMs, refillRate, now, emptiedAt,
                   limiterVars, cacheVars, batcherVars, scored, clientVars>>

\* the wall clock advances by d milliseconds between two calls
Tick(d) ==
    /\ now + d <= MaxTime
    /\ now' = now + d
    /\ UNCHANGED <<tokens, maxTokens, refillTimeMs, refillRate, lastRefill,
                   emptiedAt, bucketOp, limiterVars, cacheVars, batcherVars, scored, clientVars>>

\* the counts callers pass: 0, partial, the whole capacity, more than the capacity
Counts == 0..(MaxCapacity + 1)

(***************************************************************************)
(* RateLimiter (rate-limiter.ts) over the bucket above.  An acquireToken   *)
(* call runs to its return or to its await in one step; the continuation   *)
(* after the await is a second step, taken once its timer has expired.     *)
(***************************************************************************)
\* the callers of acquireToken
Callers == {"c1", "c2"}
\* the weights they pass
Weights == 1..MaxWeight
\* the maxWaitTimeMs options explored; 0 stands for an option left out
MaxWaitOptions == 0..MaxWait
\* the default of maxWaitTimeMs
DefaultMaxWaitTimeMs == 60000

\* no acquireToken call of this caller is under way
NoAcquire ==
    [pc |-> "idle", weight |-> 0, waitTime |-> 0, wakeAt |-> 0, attempts |-> 0,
     suspensions |-> 0, result |-> "none"]

\* new RateLimiter({tokensPerInterval, intervalInMs, maxWaitTimeMs, autoWait}):
\* the fields of the limiter; the bucket is constructed by BucketFieldsInit
LimiterFieldsInit(auto, maxWaitOption) ==
    /\ autoWait = auto
    /\ maxWaitTimeMs = IF maxWaitOption = 0 THEN DefaultMaxWaitTimeMs ELSE maxWaitOption
    /\ acquires = [c \in Callers |-> NoAcquire]
    /\ limiterOp = [caller |-> "none", step |-> "new", weight |-> 0, found |-> Zero,
                    outcome |-> "none", waitTime |-> 0]
    /\ granted = 0

\* variant: a failed take waits whatever autoWait says
AcquireOutcomeIgnoresAutoWait(ok, waitTime) ==
    IF ok THEN "granted"
    ELSE IF waitTime > maxWaitTimeMs THEN "denied"
    ELSE "waiting"

\* variant: a failed take waits however long the wait is
AcquireOutcomeNoCap(ok, waitTime) ==
    IF ok THEN "granted"
    ELSE IF ~autoWait THEN "denied"
    ELSE "waiting"

\* what acquireToken does after its first takeTokens returned ok, waitTime
\* being what getWaitTimeMs returns
AcquireOutcome(ok, waitTime) ==
    IF ok THEN "granted"
    ELSE IF ~autoWait THEN "denied"
    ELSE IF waitTime > maxWaitTimeMs THEN "denied"
    ELSE "waiting"

\* variant: a failed second take waits again
ResumeOutcomeRetries(ok) == IF ok THEN "granted" ELSE "waiting"

\* variant: after the wait acquireToken returns true without a second take
ResumeOutcomeGrants(ok) == "granted"

\* what acquireToken returns after its second takeTokens returned ok
ResumeOutcome(ok) == IF ok THEN "granted" ELSE "denied"

\* the bucket call an acquireToken step made last
LimiterBucketCall(weight, ok, level, waitTime) ==
    IF ok \/ ~autoWait
    THEN BucketCall("takeTokens", weight, ok, Zero, 0)
    ELSE [op |-> "getWaitTimeMs", count |-> weight, before |-> level, elapsed |-> 0,
          ok |-> TRUE, level |-> Zero, wait |-> waitTime]

\* acquireToken(weight) by caller c, up to its return or its await: what it
\* does to the limiter and its bucket
AcquireTokenCall(c, weight) ==
    /\ acquires[c].pc # "waiting"
    /\ \E b \in {Refill} :
       \E ok \in {FGeq(b.tokens, FromInt(weight))} :
       \E waitTime \in {IF ok \/ ~autoWait THEN 0 ELSE WaitTimeMs(weight, b.tokens)} :
       \E outcome \in {AcquireOutcome(ok, waitTime)} :
           /\ tokens' = IF ok THEN FSubSigned(b.tokens, FromInt(weight)) ELSE b.tokens
           /\ lastRefill' = b.lastRefill
           /\ bucketOp' = LimiterBucketCall(weight, ok, b.tokens, waitTime)
           /\ emptiedAt' = EmptiedAt(weight, ok, tokens')
           /\ acquires' = [acquires EXCEPT ![c] =
                  [pc |-> IF outcome = "waiting" THEN "waiting" ELSE "done",
                   weight |-> weight,
                   waitTime |-> IF outcome = "waiting" THEN waitTime ELSE 0,
                   wakeAt |-> IF outcome = "waiting" THEN now + waitTime ELSE 0,
                   attempts |-> 1,
                   suspensions |-> IF outcome = "waiting" THEN 1 ELSE 0,
                   result |-> IF outcome = "waiting" THEN "none" ELSE outcome]]
           /\ limiterOp' = [caller |-> c, step |-> "call", weight |-> weight,
                            found |-> b.tokens, outcome |-> outcome,
                            waitTime |-> waitTime]
           /\ granted' = IF ok THEN granted + weight ELSE granted
    /\ UNCHANGED <<maxTokens, refillTimeMs, refillRate, now, autoWait, maxWaitTimeMs>>

\* acquireToken(weight) by caller c on a limiter used on its own
AcquireToken(c, weight) ==
    /\ AcquireTokenCall(c, weight)
    /\ UNCHANGED <<cacheVars, batcherVars, scored, clientVars>>

\* the rest of acquireToken after its await, once the timer of caller c has
\* expired: what it does to the limiter and its bucket
AcquireResumeCall(c) ==
    /\ acquires[c].pc = "waiting"
    /\ now >= acquires[c].wakeAt
    /\ \E b \in {Refill} :
       \E weight \in {acquires[c].weight} :
       \E ok \in {FGeq(b.tokens, FromInt(weight))} :
       \E outcome \in {ResumeOutcome(ok)} :
           /\ tokens' = IF ok THEN FSubSigned(b.tokens, FromInt(weight)) ELSE b.tokens
           /\ lastRefill' = b.lastRefill
           /\ bucketOp' = BucketCall("takeTokens", weight, ok, Zero, 0)
           /\ emptiedAt' = EmptiedAt(weight, ok, tokens')
           /\ acquires' = [acquires EXCEPT ![c] =
                  [pc |-> IF outcome = "waiting" THEN "waiting" ELSE "done",
                   weight |-> weight,
                   waitTime |-> acquires[c].waitTime,
                   wakeAt |-> acquires[c].wakeAt,
                   attempts |-> acquires[c].attempts + 1,
                   suspensions |-> IF outcome = "waiting"
                                   THEN acquires[c].suspensions + 1
                                   ELSE acquires[c].suspensions,
                   result |-> IF outcome = "waiting" THEN "none" ELSE outcome]]
           /\ limiterOp' = [caller |-> c, step |-> "resume", weight |-> weight,
                            found |-> b.tokens, outcome |-> outcome,
                            waitTime |-> acquires[c].waitTime]
           /\ granted' = IF ok THEN granted + weight ELSE granted
    /\ UNCHANGED <<maxTokens, refillTimeMs, refillRate, now, autoWait, maxWaitTimeMs>>

\* the rest of acquireToken after its await on a limiter used on its own
AcquireResume(c) ==
    /\ AcquireResumeCall(c)
    /\ UNCHANGED <<cacheVars, batcherVars, scored, clientVars>>

\* the wall clock advances while acquireToken calls are under way
LimiterTick(d) ==
    /\ now + d <= MaxLimiterTime
    /\ Tick(d)

(***************************************************************************)
(* Prompt similarity (utils/similarity.ts).  A string is the sequence of   *)
(* its characters.                                                         *)
(***************************************************************************)
\* the characters trim() strips and \s matches, among those used here
WhiteSpace == {" ", "\t", "\n"}
\* toLowerCase() on the letters used here
LowerOf == ("A" :> "a") @@ ("B" :> "b") @@ ("C" :> "c")

RECURSIVE TrimStart(_)
TrimStart(s) ==
    IF s # <<>> /\ s[1] \in WhiteSpace THEN TrimStart(Tail(s)) ELSE s

RECURSIVE TrimEnd(_)
TrimEnd(s) ==
    IF s # <<>> /\ s[Len(s)] \in WhiteSpace THEN TrimEnd(SubSeq(s, 1, Len(s) - 1)) ELSE s

\* s.trim()
Trim(s) == TrimEnd(TrimStart(s))

\* s.toLowerCase()
ToLowerCase(s) ==
    [i \in 1..Len(s) |-> IF s[i] \in DOMAIN LowerOf THEN LowerOf[s[i]] ELSE s[i]]

\* s.replace(/\s+/g, ' '): every maximal run of whitespace becomes one space
RECURSIVE ReplaceSpaceRuns(_)
ReplaceSpaceRuns(s) ==
    IF s = <<>> THEN <<>>
    ELSE IF s[1] \in WhiteSpace
    THEN <<" ">> \o ReplaceSpaceRuns(TrimStart(s))
    ELSE <<s[1]>> \o ReplaceSpaceRuns(Tail(s))

\* variant: inner whitespace is left as it is
normalizePromptKeepsRuns(prompt) == ToLowerCase(Trim(prompt))

\* normalizePrompt(prompt)
normalizePrompt(prompt) == ReplaceSpaceRuns(ToLowerCase(Trim(prompt)))

\* row i of the matrix of levenshteinDistance, cells 0..j-1 of it being row,
\* from the row above: prev[j + 1] is matrix[i - 1][j].  Each cell is a
\* number before the next one is computed.
RECURSIVE MatrixRow(_, _, _, _, _)
MatrixRow(a, bi, prev, row, j) ==
    IF j > Len(a) THEN row
    ELSE LET cost == IF a[j] = bi THEN 0 ELSE 1
             cell == Min(Min(prev[j + 1] + 1, row[j] + 1), prev[j] + cost)
         IN  IF cell >= 0 THEN MatrixRow(a, bi, prev, Append(row, cell), j + 1)
             ELSE <<>>

\* matrix[Len(b)], rows i.. being still to fill and prev being matrix[i - 1].
\* Each row is complete before the next one is computed.
RECURSIVE MatrixFrom(_, _, _, _)
MatrixFrom(a, b, prev, i) ==
    IF i > Len(b) THEN prev
    ELSE LET row == MatrixRow(a, b[i], prev, <<i>>, 1)
         IN  IF Len(row) > 0 THEN MatrixFrom(a, b, row, i + 1) ELSE <<>>

\* levenshteinDistance(a, b)
levenshteinDistance(a, b) ==
    MatrixFrom(a, b, [j \in 1..(Len(a) + 1) |-> j - 1], 1)[Len(a) + 1]

\* variant: the distance is divided by the length of the first string
calculateSimilarityByFirst(a, b) ==
    IF a = b THEN FromInt(1)
    ELSE IF a = <<>> \/ b = <<>> THEN Zero
    ELSE FSubSigned(FromInt(1), FDivInt(levenshteinDistance(a, b), Len(a)))

\* calculateSimilarity(a, b), a binary64 number
calculateSimilarity(a, b) ==
    IF a = b THEN FromInt(1)
    ELSE IF a = <<>> \/ b = <<>> THEN Zero
    ELSE FSub(FromInt(1), FDivInt(levenshteinDistance(a, b), Max(Len(a), Len(b))))

\* the characters of the strings scored on their own
Alphabet == {"a", "b"}
\* the strings over Alphabet of length n at most
Strings(n) == UNION {[1..k -> Alphabet] : k \in 0..n}

\* no calculateSimilarity call yet
NoScore == [op |-> "none", a |-> <<>>, b |-> <<>>, score |-> Zero]
ScoredInit == scored = NoScore

\* a call calculateSimilarity(a, b)
Similarity(a, b) ==
    /\ scored' = [op |-> "calculateSimilarity", a |-> a, b |-> b,
                  score |-> calculateSimilarity(a, b)]
    /\ UNCHANGED <<batcherVars, bucketVars, limiterVars, cacheVars, clientVars>>

(***************************************************************************)
(* AICache (cache.ts).  this.cache is a Map: the sequence of its entries   *)
(* in insertion order, which is the order its iteration follows.           *)
(***************************************************************************)
\* what get returns on a miss
Null == 0
\* the defaults of the constructor
DefaultMaxSize == 1000
DefaultTtlMs == 3600000
DefaultSimilarityThreshold == FDivInt(19, 20)

\* the prompts callers pass: one key of ten characters as it is stored and
\* with other case and whitespace, two misspellings of it, a short key and a
\* misspelling of it, the empty prompt and a prompt of whitespace only
Plain == <<"a", "b", " ", "c", "d", "e", "f", "g", "h", "i">>
Messy == <<" ", "A", "b", " ", "\t", "C", "d", "e", "f", "g", "h", "i", "\n">>
Typo == <<"a", "b", " ", "c", "d", "e", "f", "g", "h", "x">>
TwoTypos == <<"a", "b", " ", "c", "d", "e", "f", "g", "y", "x">>
Short == <<"a", "b">>
ShortTypo == <<"a", "x">>
Empty == <<>>
Blank == <<" ", "\t">>
Prompts == {Plain, Messy, Typo, TwoTypos, Short, ShortTypo, Empty, Blank}

\* the similarityThreshold options explored, as fractions; <<0, 1>> stands
\* for 0 or an option left out
ThresholdOptions == {<<1, 2>>, <<9, 10>>, <<1, 1>>}
\* the ttlMs options explored
TtlOptions == {1, 2}

\* new AICache({maxSize, ttlMs, similarityThreshold, enableFuzzyMatching}),
\* an option of 0 standing for 0 or an option left out
CacheFieldsInit(maxSizeOption, ttlOption, thresholdOption, fuzzy) ==
    /\ cache = <<>>
    /\ maxSize = IF maxSizeOption = 0 THEN DefaultMaxSize ELSE maxSizeOption
    /\ ttlMs = IF ttlOption = 0 THEN DefaultTtlMs ELSE ttlOption
    /\ similarityThreshold =
          IF thresholdOption[1] = 0 THEN DefaultSimilarityThreshold
          ELSE FDivInt(thresholdOption[1], thresholdOption[2])
    /\ enableFuzzyMatching = fuzzy
    /\ stores = 0
    /\ cacheOp = [op |-> "new", prompt |-> <<>>, key |-> <<>>, result |-> Null,
                  path |-> "none", removed |-> {}]

\* the keys of the entries of c
Keys(c) == {c[i].key : i \in 1..Len(c)}
\* c.has(key)
Has(c, key) == key \in Keys(c)
\* c.get(key), for a key c has
EntryOf(c, key) == c[CHOOSE i \in 1..Len(c) : c[i].key = key]
\* c.delete(key)
Delete(c, key) == SelectSeq(c, LAMBDA e : e.key # key)
\* variant: set takes the key out and puts the entry in at the end
MapSetMoves(c, entry) == Append(Delete(c, entry.key), entry)

\* c.set(key, entry): a key c has keeps its place
MapSet(c, entry) ==
    IF Has(c, entry.key)
    THEN [i \in 1..Len(c) |-> IF c[i].key = entry.key THEN entry ELSE c[i]]
    ELSE Append(c, entry)

\* variant: an entry expires only after more than ttlMs
ExpiredLate(entry) == now - entry.timestamp > ttlMs

\* Date.now() - entry.timestamp >= this.ttlMs
Expired(entry) == now - entry.timestamp >= ttlMs

\* the index set's loop leaves in oldestKey: of the first entry whose
\* timestamp is below those of all entries before it and not above any
\* after it; 0 (null) for no entry
OldestIndex(c) ==
    IF c = <<>> THEN 0
    ELSE CHOOSE i \in 1..Len(c) :
            /\ \A j \in 1..(i - 1) : c[j].timestamp > c[i].timestamp
            /\ \A j \in (i + 1)..Len(c) : c[j].timestamp >= c[i].timestamp

\* if (oldestKey): null and the empty string are falsy
Truthy(c, i) == i # 0 /\ c[i].key # <<>>

\* the eviction of set: the map before the new entry is put in
Evict(c, key) ==
    IF Len(c) >= maxSize /\ ~Has(c, key)
    THEN LET i == OldestIndex(c)
         IN  IF Truthy(c, i) THEN Delete(c, c[i].key) ELSE c
    ELSE c

\* set(prompt, response)
CacheSetCall(prompt, response) ==
    /\ \E key \in {normalizePrompt(prompt)} :
       \E c \in {Evict(cache, key)} :
           /\ cache' = MapSet(c, [key |-> key, response |-> response, timestamp |-> now])
           /\ cacheOp' = [op |-> "set", prompt |-> prompt, key |-> key,
                          result |-> response, path |-> "none",
                          removed |-> Keys(cache) \ Keys(c)]
    /\ stores' = stores + 1
    /\ UNCHANGED <<maxSize, ttlMs, similarityThreshold, enableFuzzyMatching,
                   bucketVars, limiterVars, batcherVars, scored, clientVars>>

\* set(prompt, response), while the stores explored are not used up
CacheSet(prompt, response) ==
    /\ stores < MaxStores
    /\ CacheSetCall(prompt, response)

\* variant: the scan returns the entry of the highest similarity
FuzzyScanBest(c, key, i) ==
    LET live == {j \in 1..Len(c) : ~Expired(c[j])}
        hits == {j \in live :
                    FGeq(calculateSimilarity(key, c[j].key), similarityThreshold)}
        best == CHOOSE j \in hits :
                    \A h \in hits : FGeq(calculateSimilarity(key, c[j].key),
                                         calculateSimilarity(key, c[h].key))
    IN  IF hits = {}
        THEN [cache |-> SelectSeq(c, LAMBDA e : ~Expired(e)), result |-> Null,
              path |-> "miss"]
        ELSE [cache |-> c, result |-> c[best].response, path |-> "fuzzy"]

\* the loop of get over the entries from the i-th on: what get returns and
\* the map it leaves
RECURSIVE FuzzyScan(_, _, _)
FuzzyScan(c, key, i) ==
    IF i > Len(c) THEN [cache |-> c, result |-> Null, path |-> "miss"]
    ELSE IF Expired(c[i]) THEN FuzzyScan(Delete(c, c[i].key), key, i)
    ELSE IF FGeq(calculateSimilarity(key, c[i].key), similarityThreshold)
    THEN [cache |-> c, result |-> c[i].response, path |-> "fuzzy"]
    ELSE FuzzyScan(c, key, i + 1)

\* variant: get runs the scan whatever the options say
LookupAlwaysScans(c, key) ==
    IF Has(c, key) /\ ~Expired(EntryOf(c, key))
    THEN [cache |-> c, result |-> EntryOf(c, key).response, path |-> "exact"]
    ELSE FuzzyScan(Delete(c, key), key, 1)

\* get(prompt) for the normalized prompt key: what it returns and the map it
\* leaves
Lookup(c, key) ==
    IF Has(c, key) /\ ~Expired(EntryOf(c, key))
    THEN [cache |-> c, result |-> EntryOf(c, key).response, path |-> "exact"]
    ELSE LET rest == Delete(c, key)
         IN  IF enableFuzzyMatching /\ ~FGeq(similarityThreshold, FromInt(1))
             THEN FuzzyScan(rest, key, 1)
             ELSE [cache |-> rest, result |-> Null, path |-> "miss"]

\* get(prompt)
CacheGet(prompt) ==
    /\ \E key \in {normalizePrompt(prompt)} :
       \E got \in {Lookup(cache, key)} :
           /\ cache' = got.cache
           /\ cacheOp' = [op |-> "get", prompt |-> prompt, key |-> key,
                          result |-> got.result, path |-> got.path,
                          removed |-> Keys(cache) \ Keys(got.cache)]
    /\ UNCHANGED <<maxSize, ttlMs, similarityThreshold, enableFuzzyMatching, stores,
                   bucketVars, limiterVars, batcherVars, scored, clientVars>>

\* clear()
CacheClear ==
    /\ cache' = <<>>
    /\ cacheOp' = [op |-> "clear", prompt |-> <<>>, key |-> <<>>, result |-> Null,
                   path |-> "none", removed |-> Keys(cache)]
    /\ UNCHANGED <<maxSize, ttlMs, similarityThreshold, enableFuzzyMatching, stores,
                   bucketVars, limiterVars, batcherVars, scored, clientVars>>

\* variant: purgeExpired counts every entry it visits
CachePurgeExpiredCountsAll ==
    /\ cache' = SelectSeq(cache, LAMBDA e : ~Expired(e))
    /\ cacheOp' = [op |-> "purgeExpired", prompt |-> <<>>, key |-> <<>>,
                   result |-> Len(cache), path |-> "none",
                   removed |-> Keys(cache) \ Keys(cache')]
    /\ UNCHANGED <<maxSize, ttlMs, similarityThreshold, enableFuzzyMatching, stores,
                   bucketVars, limiterVars, batcherVars, scored, clientVars>>

\* purgeExpired(): result is the number of entries removed
CachePurgeExpired ==
    /\ cache' = SelectSeq(cache, LAMBDA e : ~Expired(e))
    /\ cacheOp' = [op |-> "purgeExpired", prompt |-> <<>>, key |-> <<>>,
                   result |-> Len(cache) - Len(cache'), path |-> "none",
                   removed |-> Keys(cache) \ Keys(cache')]
    /\ UNCHANGED <<maxSize, ttlMs, similarityThreshold, enableFuzzyMatching, stores,
                   bucketVars, limiterVars, batcherVars, scored, clientVars>>

\* the size getter
size == Len(cache)

\* the wall clock advances between two calls on the cache
CacheTick(d) ==
    /\ now + d <= MaxCacheTime
    /\ Tick(d)

(***************************************************************************)
(* EfrateClient (index.ts): one cache, one limiter, one batcher and the    *)
(* provider behind them.  A call runs to its return or to its next await   *)
(* in one step.  The continuation of a settled promise is a microtask: the *)
(* event loop runs no timer callback and delivers no provider response     *)
(* while one is pending.  The processBatchFn of the client's batcher calls  *)
(* provider.complete once per prompt of the batch and awaits them all.     *)
(***************************************************************************)
\* the (prompt, options) pairs passed to complete
ClientRequests == {<<Messy, "o2">>, <<Short, "o1">>}
\* the pairs passed where one prompt comes with two options values and
\* three keys compete for the cache
OptionRequests == {<<Messy, "o1">>, <<Messy, "o2">>, <<Short, "o1">>, <<ShortTypo, "o1">>}
\* the keys their prompts are cached under
ClientKeys == {normalizePrompt(r[1]) : r \in ClientRequests \cup OptionRequests}
\* the two methods that bypass cache and batcher
ChatKinds == {"chat", "embeddings"}
\* what the provider's promises settle with
AdapterResults == {"r1", "r2"}
AdapterErrors == {"e1"}
\* the message of the error thrown on a denied acquireToken
RateLimitError == "Rate limit exceeded and maximum wait time reached"
\* the limiter options explored: autoWait and maxWaitTimeMs (0: left out)
ClientLimiterOptions == {<<FALSE, 0>>, <<TRUE, 2>>}

\* no call of this caller yet
NoCall ==
    [kind |-> "none", prompt |-> <<>>, options |-> "", pc |-> "idle", reqId |-> 0,
     adapter |-> 0, acquired |-> 0, outcome |-> "none", value |-> "", n |-> 0]

\* new EfrateClient({enableCache, enableRateLimiting, enableBatching, ...}):
\* the flags; cache, limiter and batcher are constructed by their own Init
ClientFieldsInit(cacheOn, limiterOn, batcherOn) ==
    /\ enableCache = cacheOn
    /\ enableRateLimiting = limiterOn
    /\ enableBatching = batcherOn
    /\ clientCalls = [c \in Callers |-> NoCall]
    /\ issued = 0
    /\ written = [k \in ClientKeys |-> <<>>]
    /\ invoked = 0

\* a call entering one of the three methods
NewCall(kind, prompt, options) ==
    [NoCall EXCEPT !.kind = kind, !.prompt = prompt, !.options = options,
                   !.n = issued + 1]
\* return value / throw error
Returned(call, value) ==
    [call EXCEPT !.pc = "done", !.outcome = "returned", !.value = value]
Thrown(call, error) ==
    [call EXCEPT !.pc = "done", !.outcome = "thrown", !.value = error]

\* callers are interchangeable: the second makes a call only once the first
\* has made one
InTurn(c) == c = "c1" \/ clientCalls["c1"].pc # "idle"

\* the promise of acquireToken has settled and the rest of c's call is a
\* pending microtask
Resumable(c) == clientCalls[c].pc = "limiter" /\ acquires[c].pc = "done"
NoMicrotask == \A c \in Callers : ~Resumable(c)

\* the responses complete() stored per key, with the time of each store,
\* since the key was last absent from the map c
TrackKeys(w, c) == [k \in ClientKeys |-> IF Has(c, k) THEN w[k] ELSE <<>>]

\* this.cache.get(prompt) when caching is on
ClientLookup(key) ==
    IF enableCache THEN Lookup(cache, key)
    ELSE [cache |-> cache, result |-> Null, path |-> "off"]

\* variant: the result is stored under the prompt as passed, not normalized
StoreRaw(st, prompt, response) ==
    IF ~enableCache THEN st
    ELSE LET key == normalizePrompt(prompt)
             c == MapSet(Evict(st.cache, prompt),
                         [key |-> prompt, response |-> response, timestamp |-> now])
         IN  [cache |-> c,
              written |-> [TrackKeys(st.written, c) EXCEPT
                              ![key] = Append(@, [response |-> response, time |-> now])]]

\* variant: the result is stored whatever enableCache says
StoreAlways(st, prompt, response) ==
    LET key == normalizePrompt(prompt)
        c == MapSet(Evict(st.cache, key),
                    [key |-> key, response |-> response, timestamp |-> now])
    IN  [cache |-> c,
         written |-> [TrackKeys(st.written, c) EXCEPT
                         ![key] = Append(@, [response |-> response, time |-> now])]]

\* if (this.enableCache) this.cache.set(prompt, response), on the cache
\* state st = [cache, written]
Store(st, prompt, response) ==
    IF ~enableCache THEN st
    ELSE LET key == normalizePrompt(prompt)
             c == MapSet(Evict(st.cache, key),
                         [key |-> key, response |-> response, timestamp |-> now])
         IN  [cache |-> c,
              written |-> [TrackKeys(st.written, c) EXCEPT
                              ![key] = Append(@, [response |-> response, time |-> now])]]

CacheState == [cache |-> cache, written |-> written]
CommitCache(st) ==
    /\ cache' = st.cache
    /\ written' = st.written

\* variant: complete goes through the batcher whatever enableBatching says
SendCompleteAlwaysBatches(c, call) ==
    /\ idCounter' = idCounter + 1
    /\ submitted' = Append(submitted,
                           [prompt |-> call.prompt, options |-> call.options])
    /\ Commit(Enqueue(BatcherState,
                      [id |-> idCounter + 1, prompt |-> call.prompt,
                       options |-> call.options], <<"await", "">>))
    /\ clientCalls' = [clientCalls EXCEPT ![c] =
           [call EXCEPT !.pc = "queued", !.reqId = idCounter + 1]]

\* complete() from `Use batching if enabled` to its await: addRequest, or
\* provider.complete called directly
SendComplete(c, call) ==
    IF enableBatching
    THEN /\ idCounter' = idCounter + 1
         /\ submitted' = Append(submitted,
                                [prompt |-> call.prompt, options |-> call.options])
         /\ Commit(Enqueue(BatcherState,
                           [id |-> idCounter + 1, prompt |-> call.prompt,
                            options |-> call.options], <<"await", "">>))
         /\ clientCalls' = [clientCalls EXCEPT ![c] =
                [call EXCEPT !.pc = "queued", !.reqId = idCounter + 1]]
    ELSE /\ UNCHANGED batcherVars
         /\ clientCalls' = [clientCalls EXCEPT ![c] =
                [call EXCEPT !.pc = "adapter", !.adapter = call.adapter + 1]]

\* variant: the provider method is called twice
SendDirectTwice(c, call) ==
    clientCalls' = [clientCalls EXCEPT ![c] =
        [call EXCEPT !.pc = "adapter", !.adapter = call.adapter + 2]]

\* the provider method is called directly: chat, embeddings
SendDirect(c, call) ==
    clientCalls' = [clientCalls EXCEPT ![c] =
        [call EXCEPT !.pc = "adapter", !.adapter = call.adapter + 1]]

\* variant: a cache hit is returned only after a unit was acquired
AfterLookupAcquires(c, call, got) ==
    IF enableRateLimiting
    THEN /\ AcquireTokenCall(c, 1)
         /\ clientCalls' = [clientCalls EXCEPT ![c] =
                IF got.path \in {"exact", "fuzzy"}
                THEN [Returned(call, got.result) EXCEPT !.acquired = 1]
                ELSE [call EXCEPT !.pc = "limiter", !.acquired = 1]]
         /\ UNCHANGED batcherVars
    ELSE IF got.path \in {"exact", "fuzzy"}
    THEN /\ clientCalls' = [clientCalls EXCEPT ![c] = Returned(call, got.result)]
         /\ UNCHANGED <<batcherVars, bucketVars, limiterVars>>
    ELSE SendComplete(c, call) /\ UNCHANGED <<bucketVars, limiterVars>>

\* complete() after this.cache.get returned `got`: return the cached
\* response, or go on to the limiter, or to the batcher or provider
AfterLookup(c, call, got) ==
    IF got.path \in {"exact", "fuzzy"}
    THEN /\ clientCalls' = [clientCalls EXCEPT ![c] = Returned(call, got.result)]
         /\ UNCHANGED <<batcherVars, bucketVars, limiterVars>>
    ELSE IF enableRateLimiting
    THEN /\ AcquireTokenCall(c, 1)
         /\ clientCalls' = [clientCalls EXCEPT ![c] =
                [call EXCEPT !.pc = "limiter", !.acquired = 1]]
         /\ UNCHANGED batcherVars
    ELSE SendComplete(c, call) /\ UNCHANGED <<bucketVars, limiterVars>>

\* the provider method invocations the step starts: the prompts of a batch
\* handed to processBatchFn, one provider.complete each, and the direct
\* calls of the callers
RECURSIVE DirectStarted(_)
DirectStarted(cs) ==
    IF cs = {} THEN 0
    ELSE LET c == CHOOSE x \in cs : TRUE
         IN  (IF clientCalls'[c].n = clientCalls[c].n
              THEN clientCalls'[c].adapter - clientCalls[c].adapter
              ELSE clientCalls'[c].adapter)
             + DirectStarted(cs \ {c})
StartedNow ==
    (IF Len(calls') > Len(calls) THEN Len(calls'[Len(calls')].ids) ELSE 0)
    + DirectStarted(Callers)

\* variant: a response is looked up only for the options value "o1"
ClientCompleteCallKeyed(c, prompt, options) ==
    /\ clientCalls[c].pc \in {"idle", "done"}
    /\ InTurn(c)
    /\ issued' = issued + 1
    /\ \E key \in {normalizePrompt(prompt)} :
       \E got \in {IF options = "o1" THEN ClientLookup(key)
                   ELSE [cache |-> cache, result |-> Null, path |-> "off"]} :
           /\ cache' = got.cache
           /\ written' = TrackKeys(written, got.cache)
           /\ AfterLookup(c, NewCall("complete", prompt, options), got)
    /\ invoked' = invoked + StartedNow
    /\ UNCHANGED <<maxSize, ttlMs, similarityThreshold, enableFuzzyMatching, stores,
                   cacheOp, scored, enableCache, enableRateLimiting, enableBatching>>

\* complete(prompt, options) by caller c, up to its return or its first await
ClientCompleteCall(c, prompt, options) ==
    /\ clientCalls[c].pc \in {"idle", "done"}
    /\ InTurn(c)
    /\ issued' = issued + 1
    /\ \E key \in {normalizePrompt(prompt)} :
       \E got \in {ClientLookup(key)} :
           /\ cache' = got.cache
           /\ written' = TrackKeys(written, got.cache)
           /\ AfterLookup(c, NewCall("complete", prompt, options), got)
    /\ invoked' = invoked + StartedNow
    /\ UNCHANGED <<maxSize, ttlMs, similarityThreshold, enableFuzzyMatching, stores,
                   cacheOp, scored, enableCache, enableRateLimiting, enableBatching>>

\* complete(prompt, options), while the calls explored are not used up
ClientComplete(c, prompt, options) ==
    /\ issued < MaxCalls
    /\ ClientCompleteCall(c, prompt, options)

\* variant: chat and embeddings call the provider without asking the limiter
ClientChatUnlimited(c, kind) ==
    /\ clientCalls[c].pc \in {"idle", "done"}
    /\ InTurn(c)
    /\ issued < MaxCalls
    /\ issued' = issued + 1
    /\ SendDirect(c, NewCall(kind, <<>>, "o1"))
    /\ UNCHANGED <<bucketVars, limiterVars>>
    /\ UNCHANGED <<batcherVars, cacheVars, scored, written,
                   enableCache, enableRateLimiting, enableBatching>>
    /\ invoked' = invoked + StartedNow

\* chat(messages, options) / embeddings(input, options) by caller c, up to
\* its first await
ClientChat(c, kind) ==
    /\ clientCalls[c].pc \in {"idle", "done"}
    /\ InTurn(c)
    /\ issued < MaxCalls
    /\ issued' = issued + 1
    /\ IF enableRateLimiting
       THEN /\ AcquireTokenCall(c, 1)
            /\ clientCalls' = [clientCalls EXCEPT ![c] =
                   [NewCall(kind, <<>>, "o1") EXCEPT !.pc = "limiter", !.acquired = 1]]
       ELSE /\ SendDirect(c, NewCall(kind, <<>>, "o1"))
            /\ UNCHANGED <<bucketVars, limiterVars>>
    /\ UNCHANGED <<batcherVars, cacheVars, scored, written,
                   enableCache, enableRateLimiting, enableBatching>>
    /\ invoked' = invoked + StartedNow

\* variant: a denied call goes on as if it had been granted
ProceedIgnoresDenial(c) ==
    IF clientCalls[c].kind = "complete"
    THEN SendComplete(c, clientCalls[c])
    ELSE SendDirect(c, clientCalls[c]) /\ UNCHANGED batcherVars

\* the code after `await this.rateLimiter.acquireToken()`
Proceed(c) ==
    IF acquires[c].result = "denied"
    THEN /\ clientCalls' = [clientCalls EXCEPT ![c] =
                Thrown(clientCalls[c], RateLimitError)]
         /\ UNCHANGED batcherVars
    ELSE IF clientCalls[c].kind = "complete"
    THEN SendComplete(c, clientCalls[c])
    ELSE SendDirect(c, clientCalls[c]) /\ UNCHANGED batcherVars

\* the continuation of caller c after acquireToken has returned
ClientProceed(c) ==
    /\ Resumable(c)
    /\ Proceed(c)
    /\ invoked' = invoked + StartedNow
    /\ UNCHANGED <<bucketVars, limiterVars, cacheVars, scored, issued, written,
                   enableCache, enableRateLimiting, enableBatching>>

\* the timer of the wait inside acquireToken expires for caller c
ClientWake(c) ==
    /\ NoMicrotask
    /\ clientCalls[c].pc = "limiter"
    /\ AcquireResumeCall(c)
    /\ UNCHANGED <<batcherVars, cacheVars, scored, clientVars>>

\* variant: a failed provider call is made once more
AdapterFailureRetried(call, error) ==
    IF call.adapter < 2 THEN [call EXCEPT !.adapter = call.adapter + 1]
    ELSE Thrown(call, error)

\* what a rejected provider promise does to the call awaiting it
AdapterFailure(call, error) == Thrown(call, error)

\* the promise of the direct provider call of caller c fulfils with `result`
AdapterFulfil(c, result) ==
    /\ NoMicrotask
    /\ clientCalls[c].pc = "adapter"
    /\ clientCalls' = [clientCalls EXCEPT ![c] = Returned(clientCalls[c], result)]
    /\ CommitCache(IF clientCalls[c].kind = "complete"
                   THEN Store(CacheState, clientCalls[c].prompt, result)
                   ELSE CacheState)
    /\ UNCHANGED <<batcherVars, bucketVars, limiterVars, scored, issued,
                   maxSize, ttlMs, similarityThreshold, enableFuzzyMatching,
                   stores, cacheOp, enableCache, enableRateLimiting, enableBatching,
                   invoked>>

\* the promise of the direct provider call of caller c rejects with `error`
AdapterReject(c, error) ==
    /\ NoMicrotask
    /\ clientCalls[c].pc = "adapter"
    /\ clientCalls' = [clientCalls EXCEPT ![c] = AdapterFailure(clientCalls[c], error)]
    /\ UNCHANGED <<batcherVars, bucketVars, limiterVars, cacheVars, scored, issued,
                   written, enableCache, enableRateLimiting, enableBatching, invoked>>

\* the delay timer or follow-up timer of the client's batcher fires
ClientTimerFire ==
    /\ NoMicrotask
    /\ \E t \in timers : Commit(Fired(BatcherState, t, <<"await", "">>))
    /\ UNCHANGED <<idCounter, submitted, bucketVars, limiterVars, cacheVars, scored,
                   clientCalls, issued, written,
                   enableCache, enableRateLimiting, enableBatching>>
    /\ invoked' = invoked + StartedNow

\* the caller whose complete() awaits the request `id` of the batcher
SlotOf(id) ==
    CHOOSE c \in Callers : clientCalls[c].pc = "queued" /\ clientCalls[c].reqId = id

\* the continuations of the complete() calls of a fulfilled batch, from its
\* i-th item on, in the order their promises were resolved: each stores its
\* result and returns it.  st = [cache, written, calls]
RECURSIVE ContinueFrom(_, _, _, _)
ContinueFrom(st, batch, results, i) ==
    IF i > Len(batch) THEN st
    ELSE LET c == SlotOf(batch[i].id)
             kept == Store([cache |-> st.cache, written |-> st.written],
                           st.calls[c].prompt, results[i])
         IN  ContinueFrom([cache |-> kept.cache, written |-> kept.written,
                           calls |-> [st.calls EXCEPT ![c] = Returned(@, results[i])]],
                          batch, results, i + 1)

\* every provider.complete of the batch in flight has fulfilled: processBatch
\* resolves the requests, and their complete() calls go on
ClientBatchFulfil ==
    /\ NoMicrotask
    /\ \E f \in inflight : \E results \in ResultArrays(AdapterResults, Len(f.batch)) :
       \E st \in {ContinueFrom([cache |-> cache, written |-> written,
                                calls |-> clientCalls], f.batch, results, 1)} :
           /\ Commit(Fulfilled(BatcherState, f, results))
           /\ CommitCache(st)
           /\ clientCalls' = st.calls
    /\ UNCHANGED <<idCounter, submitted, bucketVars, limiterVars, scored, issued,
                   maxSize, ttlMs, similarityThreshold, enableFuzzyMatching,
                   stores, cacheOp, enableCache, enableRateLimiting, enableBatching,
                   invoked>>

\* a provider.complete of the batch in flight has rejected: processBatch
\* rejects the requests, and their complete() calls throw
ClientBatchReject ==
    /\ NoMicrotask
    /\ \E f \in inflight : \E error \in AdapterErrors :
           /\ Commit(Rejected(BatcherState, f, error))
           /\ clientCalls' = [c \in Callers |->
                  IF /\ clientCalls[c].pc = "queued"
                     /\ \E i \in 1..Len(f.batch) : f.batch[i].id = clientCalls[c].reqId
                  THEN AdapterFailure(clientCalls[c], error)
                  ELSE clientCalls[c]]
    /\ UNCHANGED <<idCounter, submitted, bucketVars, limiterVars, cacheVars, scored,
                   issued, written, enableCache, enableRateLimiting, enableBatching,
                   invoked>>

\* clearCache()
ClientClearCache ==
    /\ cache' = <<>>
    /\ written' = TrackKeys(written, <<>>)
    /\ UNCHANGED <<maxSize, ttlMs, similarityThreshold, enableFuzzyMatching, stores,
                   cacheOp, batcherVars, bucketVars, limiterVars, scored, issued,
                   clientCalls, enableCache, enableRateLimiting, enableBatching,
                   invoked>>

\* purgeExpiredCache()
ClientPurgeExpired ==
    /\ cache' = SelectSeq(cache, LAMBDA e : ~Expired(e))
    /\ written' = TrackKeys(written, cache')
    /\ UNCHANGED <<maxSize, ttlMs, similarityThreshold, enableFuzzyMatching, stores,
                   cacheOp, batcherVars, bucketVars, limiterVars, scored, issued,
                   clientCalls, enableCache, enableRateLimiting, enableBatching,
                   invoked>>

\* the wall clock advances
ClientTick(d) ==
    /\ now + d <= MaxClientTime
    /\ Tick(d)

Init ==
    /\ BatcherFieldsInit
    /\ BucketFieldsInit(1, 1)
    /\ LimiterFieldsInit(TRUE, 0)
    /\ CacheFieldsInit(0, 0, <<0, 1>>, TRUE)
    /\ ScoredInit
    /\ ClientFieldsInit(TRUE, TRUE, TRUE)

Next ==
    \/ \E r \in Requests : AddRequest(r[1], r[2], DispatchModes(Errors))
    \/ TimerFire(DispatchModes(Errors))
    \/ BatchResolve(Results)
    \/ BatchReject(Errors)
    \/ \E r \in Reasons : ClearQueue(r)

Spec == Init /\ [][Next]_vars

\* The same batcher with one value of each kind of data (its control flow
\* reads none of them), under the scheduling the runtime provides: every
\* armed timer eventually fires, every processBatchFn call eventually completes.
LiveTimerFire == TimerFire(DispatchModes({"e1"}))
LiveBatchDone == BatchResolve({"r1"}) \/ BatchReject({"e1"})

LiveNext ==
    \/ AddRequest("p1", "o1", DispatchModes({"e1"}))
    \/ LiveTimerFire
    \/ LiveBatchDone
    \/ ClearQueue("Queue cleared")

LiveSpec == Init /\ [][LiveNext]_vars /\ WF_vars(LiveTimerFire) /\ WF_vars(LiveBatchDone)

\* the bucket alone, for every capacity and refill window within the bounds
BucketInit ==
    /\ BatcherFieldsInit
    /\ LimiterFieldsInit(TRUE, 0)
    /\ CacheFieldsInit(0, 0, <<0, 1>>, TRUE)
    /\ ScoredInit
    /\ ClientFieldsInit(TRUE, TRUE, TRUE)
    /\ \E cap \in 1..MaxCapacity, window \in 1..MaxWindow : BucketFieldsInit(cap, window)

BucketNext ==
    \/ \E n \in Counts : TakeTokens(n)
    \/ GetTokens
    \/ \E n \in Counts : GetWaitTimeMs(n)
    \/ \E d \in 1..MaxStep : Tick(d)

BucketSpec == BucketInit /\ [][BucketNext]_vars

\* the limiter, for every bucket, autoWait and maxWaitTimeMs within the bounds
LimiterInit ==
    /\ BatcherFieldsInit
    /\ CacheFieldsInit(0, 0, <<0, 1>>, TRUE)
    /\ ScoredInit
    /\ ClientFieldsInit(TRUE, TRUE, TRUE)
    /\ \E cap \in 1..MaxCapacity, window \in 1..MaxLimiterWindow :
           BucketFieldsInit(cap, window)
    /\ \E auto \in BOOLEAN, maxWaitOption \in MaxWaitOptions :
           LimiterFieldsInit(auto, maxWaitOption)

LimiterNext ==
    \/ \E c \in Callers, weight \in Weights : AcquireToken(c, weight)
    \/ \E c \in Callers : AcquireResume(c)
    \/ \E d \in 1..MaxStep : LimiterTick(d)

LimiterSpec == LimiterInit /\ [][LimiterNext]_vars

\* the cache, for every configuration explored.  Responses are
\* opaque: each set passes a fresh one, so that a result tells which set it
\* came from.
CacheInit ==
    /\ BatcherFieldsInit
    /\ BucketFieldsInit(1, 1)
    /\ LimiterFieldsInit(TRUE, 0)
    /\ ScoredInit
    /\ ClientFieldsInit(TRUE, TRUE, TRUE)
    /\ \E maxSizeOption \in 1..MaxSize, ttlOption \in TtlOptions,
          thresholdOption \in ThresholdOptions, fuzzy \in BOOLEAN :
           \* get reads no threshold when fuzzy matching is off
           /\ fuzzy \/ thresholdOption = <<1, 2>>
           /\ CacheFieldsInit(maxSizeOption, ttlOption, thresholdOption, fuzzy)

CacheNext ==
    \/ \E prompt \in Prompts : CacheSet(prompt, stores + 1)
    \/ \E prompt \in Prompts : CacheGet(prompt)
    \/ CacheClear
    \/ CachePurgeExpired
    \/ \E d \in 1..MaxStep : CacheTick(d)

CacheSpec == CacheInit /\ [][CacheNext]_vars

\* the cache filled and stored over: three keys, a third set call
StorePrompts == {Short, ShortTypo, Messy}

StoreInit ==
    /\ BatcherFieldsInit
    /\ BucketFieldsInit(1, 1)
    /\ LimiterFieldsInit(TRUE, 0)
    /\ ScoredInit
    /\ ClientFieldsInit(TRUE, TRUE, TRUE)
    /\ \E maxSizeOption \in 1..MaxSize, ttlOption \in TtlOptions :
           CacheFieldsInit(maxSizeOption, ttlOption, <<9, 10>>, TRUE)

StoreNext ==
    \/ \E prompt \in StorePrompts :
           stores < MaxStoreCalls /\ CacheSetCall(prompt, stores + 1)
    \/ \E prompt \in StorePrompts : CacheGet(prompt)
    \/ CacheClear
    \/ CachePurgeExpired
    \/ \E d \in 1..MaxStep : CacheTick(d)

StoreSpec == StoreInit /\ [][StoreNext]_vars

\* calculateSimilarity on its own, for every pair of strings within the bounds
SimilarityInit ==
    /\ BatcherFieldsInit
    /\ BucketFieldsInit(1, 1)
    /\ LimiterFieldsInit(TRUE, 0)
    /\ CacheFieldsInit(0, 0, <<0, 1>>, TRUE)
    /\ ScoredInit
    /\ ClientFieldsInit(TRUE, TRUE, TRUE)

SimilarityNext == \E a \in Strings(MaxLen), b \in Strings(MaxLen) : Similarity(a, b)

SimilaritySpec == SimilarityInit /\ [][SimilarityNext]_vars

\* the client, for every combination of its three flags, over a bucket of one
\* token per two milliseconds and a cache of one entry
ClientInit ==
    /\ BatcherFieldsInit
    /\ BucketFieldsInit(1, 2)
    /\ CacheFieldsInit(1, 2, <<9, 10>>, TRUE)
    /\ ScoredInit
    /\ \E o \in ClientLimiterOptions :
       \E cacheOn \in BOOLEAN, limiterOn \in BOOLEAN, batcherOn \in BOOLEAN :
           \* no call reaches the limiter when rate limiting is off
           /\ limiterOn \/ o = <<FALSE, 0>>
           /\ LimiterFieldsInit(o[1], o[2])
           /\ ClientFieldsInit(cacheOn, limiterOn, batcherOn)

ClientNext ==
    \/ \E c \in Callers, r \in ClientRequests : ClientComplete(c, r[1], r[2])
    \/ \E c \in Callers, kind \in ChatKinds : ClientChat(c, kind)
    \/ \E c \in Callers : ClientProceed(c)
    \/ \E c \in Callers : ClientWake(c)
    \/ \E c \in Callers, result \in AdapterResults : AdapterFulfil(c, result)
    \/ \E c \in Callers, error \in AdapterErrors : AdapterReject(c, error)
    \/ ClientTimerFire
    \/ ClientBatchFulfil
    \/ ClientBatchReject
    \/ ClientClearCache
    \/ ClientPurgeExpired
    \/ \E d \in 1..MaxStep : ClientTick(d)

ClientSpec == ClientInit /\ [][ClientNext]_vars

\* complete() alone, with caching on and rate limiting and batching off,
\* over a cache of two entries and a provider that answers every request:
\* one prompt under two options values, three keys, a fourth call
OptionsInit ==
    /\ BatcherFieldsInit
    /\ BucketFieldsInit(1, 2)
    /\ CacheFieldsInit(2, 2, <<9, 10>>, TRUE)
    /\ ScoredInit
    /\ LimiterFieldsInit(FALSE, 0)
    /\ ClientFieldsInit(TRUE, FALSE, FALSE)

OptionsNext ==
    \/ \E c \in Callers, r \in OptionRequests :
           issued < MaxOptionCalls /\ ClientCompleteCall(c, r[1], r[2])
    \/ \E c \in Callers, result \in AdapterResults : AdapterFulfil(c, result)
    \/ ClientPurgeExpired
    \/ \E d \in 1..MaxStep : ClientTick(d)

OptionsSpec == OptionsInit /\ [][OptionsNext]_vars

(***************************************************************************)
(* Properties of the RequestBatcher.                                       *)
(***************************************************************************)
\* ids of the requests waiting in the queue
QueueIds == {queue[i].id : i \in 1..Len(queue)}
\* the places <<call, index>> at which request id was handed to processBatchFn
CallSlots(id) ==
    {sl \in UNION {{<<c, i>> : i \in 1..Len(calls[c].ids)} : c \in 1..Len(calls)} :
        calls[sl[1]].ids[sl[2]] = id}
\* request id was rejected by clearQueue
ClearedIds == {id \in Ids : \E k \in 1..Len(settled[id]) : settled[id][k].by = 0}
\* request id was rejected by clearQueue in this very step
ClearedNow(id) ==
    \E k \in 1..Len(settled'[id]) : k > Len(settled[id]) /\ settled'[id][k].by = 0

\* C1: no handle is settled more than once; a request is in the queue or in
\* exactly one dispatched batch, never both; a request rejected by clearQueue
\* is never handed to processBatchFn.
C1_SettledAtMostOnce ==
    \A id \in Ids :
        /\ Len(settled[id]) <= 1
        /\ Cardinality({i \in 1..Len(queue) : queue[i].id = id})
             + Cardinality(CallSlots(id)) <= 1
        /\ id \in ClearedIds => CallSlots(id) = {}

\* a request was rejected by clearQueue and a later request was resolved by a dispatch
C1_Witness ==
    \E a \in ClearedIds : \E b \in Ids :
        /\ b > a
        /\ Len(settled[b]) = 1
        /\ settled[b][1].kind = "resolve"

\* C2: every enqueued request is eventually resolved or rejected (timers fire
\* and processBatchFn calls complete, see LiveSpec).
C2_EverySettled ==
    \A id \in Ids : (idCounter >= id) ~> (settled[id] # <<>>)

\* a single request, alone in its batch although maxBatchSize is larger, got resolved
C2_Witness ==
    /\ idCounter = 1
    /\ maxBatchSize > 1
    /\ Len(calls) = 1
    /\ settled[1] # <<>>
    /\ settled[1][1].kind = "resolve"

\* the ids handed to processBatchFn, over all its invocations in order
RECURSIVE DispatchedIds(_)
DispatchedIds(n) == IF n = 0 THEN <<>> ELSE DispatchedIds(n - 1) \o calls[n].ids

\* C3: over the sequence of processBatchFn invocations the requests appear in
\* enqueue order (ids grow), inside a batch and from one batch to the next,
\* and each prompt handed over is the prompt of that request.
C3_Fifo ==
    LET flat == DispatchedIds(Len(calls))
    IN  /\ \A i, j \in 1..Len(flat) : i < j => flat[i] < flat[j]
        /\ \A c \in 1..Len(calls) : \A i \in 1..Len(calls[c].ids) :
              calls[c].prompts[i] = submitted[calls[c].ids[i]].prompt

\* two invocations, one of them with two different prompts
C3_Witness ==
    /\ Len(calls) >= 2
    /\ \E c \in 1..Len(calls) :
          /\ Len(calls[c].prompts) >= 2
          /\ calls[c].prompts[1] # calls[c].prompts[2]

\* C4: every processBatchFn invocation receives at most maxBatchSize prompts.
C4_BatchSize ==
    \A c \in 1..Len(calls) :
        /\ Len(calls[c].prompts) <= maxBatchSize
        /\ Len(calls[c].optionsArray) <= maxBatchSize

\* a full batch was taken from a queue holding more than maxBatchSize requests
C4_Witness ==
    \E c \in 1..Len(calls) :
        /\ Len(calls[c].prompts) = maxBatchSize
        /\ calls[c].left > 0

\* C5: a request is resolved only with the result at its own index of its own
\* fulfilled batch, and the prompt and options at that index are its own.
C5_Positional ==
    /\ \A id \in Ids : \A k \in 1..Len(settled[id]) :
          LET e == settled[id][k]
          IN  e.kind = "resolve" =>
                /\ e.by \in 1..Len(calls)
                /\ calls[e.by].status = "fulfilled"
                /\ \E i \in 1..Len(calls[e.by].ids) :
                      /\ calls[e.by].ids[i] = id
                      /\ e.value = calls[e.by].results[i]
                      /\ calls[e.by].prompts[i] = submitted[id].prompt
                      /\ calls[e.by].optionsArray[i] = submitted[id].options
    /\ \A c \in 1..Len(calls) :
          calls[c].status = "fulfilled" =>
            \A i \in 1..Len(calls[c].ids) :
              settled[calls[c].ids[i]] = <<SettleEvent("resolve", calls[c].results[i], c)>>

\* a batch of two different requests was fulfilled with two different results
C5_Witness ==
    \E c \in 1..Len(calls) :
        /\ calls[c].status = "fulfilled"
        /\ Len(calls[c].ids) >= 2
        /\ calls[c].results[1] # calls[c].results[2]
        /\ calls[c].prompts[1] # calls[c].prompts[2]

\* C6: when a processBatchFn call fails, every request of that batch is
\* rejected with that error and not resolved; no other request is rejected by
\* that failure; while no call has been fulfilled nothing is resolved.
C6_BatchFailure ==
    /\ \A c \in 1..Len(calls) :
          calls[c].status = "rejected" =>
            \A i \in 1..Len(calls[c].ids) :
              settled[calls[c].ids[i]] = <<SettleEvent("reject", calls[c].error, c)>>
    /\ \A id \in Ids : \A k \in 1..Len(settled[id]) :
          LET e == settled[id][k]
          IN  (e.kind = "reject" /\ e.by # 0) =>
                /\ e.by \in 1..Len(calls)
                /\ calls[e.by].status = "rejected"
                /\ \E i \in 1..Len(calls[e.by].ids) : calls[e.by].ids[i] = id
    /\ (\A c \in 1..Len(calls) : calls[c].status # "fulfilled") =>
          \A id \in Ids : \A k \in 1..Len(settled[id]) : settled[id][k].kind # "resolve"

\* a batch failed while requests were waiting, and a later batch was fulfilled
C6_Witness ==
    \E c, d \in 1..Len(calls) :
        /\ c < d
        /\ calls[c].status = "rejected"
        /\ Len(calls[c].ids) >= 2
        /\ calls[d].status = "fulfilled"
        /\ calls[d].ids[1] = calls[c].ids[Len(calls[c].ids)] + 1

\* C7: a clearQueue(reason) step rejects each queued request with the reason,
\* empties the queue and leaves no timer armed; and whenever the queue is
\* empty (where clearQueue changes nothing) no timer is armed either.
C7_Clear ==
    [][ /\ (\E id \in Ids : ClearedNow(id)) =>
             \E r \in Reasons :
                /\ queue' = <<>>
                /\ batchTimer' = NoTimer
                /\ timers' = {}
                /\ \A id \in Ids :
                      settled'[id] = IF id \in QueueIds
                                     THEN Append(settled[id], SettleEvent("reject", r, 0))
                                     ELSE settled[id]
        /\ queue' = <<>> => (timers' = {} /\ batchTimer' = NoTimer) ]_vars

\* clearQueue ran while a batch was in flight: a request enqueued after the
\* batch in flight has been rejected by it
C7_Witness ==
    \E f \in inflight : \E id \in ClearedIds :
        /\ id > f.batch[1].id
        /\ queue = <<>>
        /\ timers = {}

\* C8: a clearQueue step leaves the batches in flight and the handles of their
\* requests untouched; a dispatched request is never in the queue and is
\* settled only by its own processBatchFn call.
C8_ClearFrame ==
    [][ /\ (\E id \in Ids : ClearedNow(id)) =>
             /\ inflight' = inflight
             /\ calls' = calls
             /\ isProcessing' = isProcessing
             /\ \A f \in inflight : \A i \in 1..Len(f.batch) :
                   settled'[f.batch[i].id] = settled[f.batch[i].id]
        /\ \A f \in inflight' : \A i \in 1..Len(f.batch) :
              /\ \A j \in 1..Len(queue') : queue'[j].id # f.batch[i].id
              /\ settled'[f.batch[i].id] = <<>>
        /\ \A c \in 1..Len(calls') : \A i \in 1..Len(calls'[c].ids) :
              \A k \in 1..Len(settled'[calls'[c].ids[i]]) :
                settled'[calls'[c].ids[i]][k].by = c ]_vars

\* clearQueue ran while a full batch was in flight, and that batch then
\* completed and settled its own requests
C8_Witness ==
    \E c \in 1..Len(calls) : \E id \in ClearedIds :
        /\ calls[c].status # "pending"
        /\ Len(calls[c].ids) = maxBatchSize
        /\ id > calls[c].ids[1]
        /\ \A i \in 1..Len(calls[c].ids) :
              /\ Len(settled[calls[c].ids[i]]) = 1
              /\ settled[calls[c].ids[i]][1].by = c
        /\ \E d \in 1..Len(calls) : d > c /\ calls[d].ids[1] > id /\ calls[d].status = "pending"

(***************************************************************************)
(* Properties of the TokenBucket.                                          *)
(***************************************************************************)
\* C9: the level is never negative and never exceeds the capacity.
C9_LevelInRange == tokens # Negative /\ BNCmp(tokens, FromInt(maxTokens)) <= 0

\* a call refilled a partly used bucket by more than it could hold
C9_Witness ==
    /\ bucketOp.op # "new"
    /\ bucketOp.elapsed > 0
    /\ BNCmp(bucketOp.before, FromInt(maxTokens)) < 0
    /\ BNCmp(FAdd(bucketOp.before, FMulInt(bucketOp.elapsed, refillRate)),
             FromInt(maxTokens)) > 0

\* the level refill() leaves, from what the last call found
RefilledLevel ==
    IF bucketOp.elapsed > 0
    THEN LET sum == FAdd(bucketOp.before, FMulInt(bucketOp.elapsed, refillRate))
         IN  IF BNCmp(sum, FromInt(maxTokens)) > 0 THEN FromInt(maxTokens) ELSE sum
    ELSE bucketOp.before

\* C10: takeTokens(count) succeeds exactly when the refilled level is at least
\* count and then lowers the level by count, with no rounding; otherwise it
\* fails and the level stays at the refilled value.
C10_TakeTokens ==
    bucketOp.op = "takeTokens" =>
        /\ bucketOp.ok <=> BNCmp(RefilledLevel, FromInt(bucketOp.count)) >= 0
        /\ bucketOp.ok => /\ tokens # Negative
                          /\ BNAdd(tokens, FromInt(bucketOp.count)) = RefilledLevel
        /\ ~bucketOp.ok => tokens = RefilledLevel

\* a take failed after a partial refill and kept the refilled level; an
\* earlier state of the same run took exactly what the bucket held
C10_Witness ==
    /\ bucketOp.op = "takeTokens"
    /\ ~bucketOp.ok
    /\ bucketOp.elapsed > 0
    /\ BNCmp(tokens, bucketOp.before) > 0
    /\ BNCmp(tokens, FromInt(maxTokens)) < 0

\* C11: once refillTimeMs milliseconds have passed since a take left the
\* bucket empty, with no take in between, getTokens() returns exactly
\* maxTokens (lastRefill is the time of the call bucketOp records).
C11_FullAfterWindow ==
    (/\ bucketOp.op = "getTokens"
     /\ emptiedAt >= 0
     /\ lastRefill - emptiedAt >= refillTimeMs) => bucketOp.level = FromInt(maxTokens)

\* C12: a takeTokens(n) that follows a getWaitTimeMs(n), for n within the
\* capacity, by at least the number of milliseconds the latter returned
\* succeeds.
C12_WaitSufficient ==
    [][(/\ bucketOp.op = "getWaitTimeMs"
        /\ bucketOp.count <= maxTokens
        /\ now' = now
        /\ bucketOp'.op = "takeTokens"
        /\ bucketOp'.count = bucketOp.count
        /\ bucketOp'.elapsed >= bucketOp.wait) => bucketOp'.ok]_vars

(***************************************************************************)
(* Properties of the RateLimiter.                                          *)
(***************************************************************************)
\* the record of the caller of the last acquireToken step
LastCaller == acquires[limiterOp.caller]
\* the last acquireToken step found fewer tokens than its weight
FoundShort == BNCmp(limiterOp.found, FromInt(limiterOp.weight)) < 0

\* C13: with autoWait false, an acquireToken call that finds fewer tokens than
\* its weight returns false in the same step, suspends nothing and takes
\* nothing; on a bucket of one token the first acquireToken() after
\* construction is granted and an acquireToken() that follows a grant with no
\* time elapsed is denied.
C13_DeniedAtOnce ==
    [][~autoWait =>
         /\ (limiterOp'.step = "call" /\ FoundShort') =>
                /\ limiterOp'.outcome = "denied"
                /\ tokens' = limiterOp'.found
                /\ LastCaller'.pc = "done"
                /\ LastCaller'.result = "denied"
                /\ LastCaller'.attempts = 1
                /\ LastCaller'.suspensions = 0
         /\ (maxTokens = 1 /\ limiterOp.step = "new" /\ limiterOp'.step = "call"
               /\ limiterOp'.weight = 1) => limiterOp'.outcome = "granted"
         /\ (maxTokens = 1 /\ limiterOp.step = "call" /\ limiterOp.outcome = "granted"
               /\ lastRefill = now /\ now' = now /\ acquires' # acquires)
                => limiterOp'.outcome = "denied"]_vars

\* with autoWait false, two acquireToken() calls on a bucket of one token with
\* no time elapsed: the first was granted, the second is denied
C13_Witness ==
    /\ ~autoWait
    /\ maxTokens = 1
    /\ now = 0
    /\ granted = 1
    /\ limiterOp.step = "call"
    /\ limiterOp.weight = 1
    /\ limiterOp.outcome = "denied"
    /\ \E c \in Callers : acquires[c].result = "granted"

C15_WaitThenRetry ==
    /\ \A c \in Callers :
          /\ acquires[c].attempts <= 2
          /\ acquires[c].suspensions <= 1
          /\ acquires[c].pc = "done" => acquires[c].attempts = 1 + acquires[c].suspensions
          /\ acquires[c].pc = "waiting" =>
                acquires[c].attempts = 1 /\ acquires[c].suspensions = 1
    /\ limiterOp.step = "resume" =>
          /\ limiterOp.outcome = (IF FoundShort THEN "denied" ELSE "granted")
          /\ LastCaller.pc = "done"
          /\ LastCaller.result = limiterOp.outcome
          /\ LastCaller.attempts = 2
          /\ FoundShort => tokens = limiterOp.found
    /\ granted * refillTimeMs <= maxTokens * (refillTimeMs + now)

\* two callers waited for the same token: one got it, the other was denied
\* after its single retry
C15_Witness ==
    /\ limiterOp.step = "resume"
    /\ limiterOp.outcome = "denied"
    /\ \E c, d \in Callers :
          /\ c # d
          /\ acquires[c].pc = "done" /\ acquires[d].pc = "done"
          /\ acquires[c].suspensions = 1 /\ acquires[d].suspensions = 1
          /\ acquires[c].wakeAt = acquires[d].wakeAt
          /\ acquires[c].weight = acquires[d].weight
          /\ acquires[c].result = "granted" /\ acquires[d].result = "denied"

(***************************************************************************)
(* Properties of the AICache.                                              *)
(***************************************************************************)
\* the step is a get(cacheOp'.prompt) call
GetStep == cacheOp'.op = "get" /\ now' = now
\* the step is a set(cacheOp'.prompt, cacheOp'.result) call
SetStep == cacheOp'.op = "set" /\ stores' = stores + 1
\* the age of the entry is below ttlMs
Live(entry) == now - entry.timestamp < ttlMs
\* c without its i-th entry
RemoveAt(c, i) == SubSeq(c, 1, i - 1) \o SubSeq(c, i + 1, Len(c))
\* the place in c of the entry that holds response
PlaceOf(c, response) == CHOOSE i \in 1..Len(c) : c[i].response = response

\* the words of s: its maximal runs of characters that are not whitespace
RECURSIVE Words(_)
Words(s) ==
    LET t == TrimStart(s)
        n == IF \E i \in 1..Len(t) : t[i] \in WhiteSpace
             THEN (CHOOSE i \in 1..Len(t) :
                      t[i] \in WhiteSpace /\ \A j \in 1..(i - 1) : t[j] \notin WhiteSpace) - 1
             ELSE Len(t)
    IN  IF t = <<>> THEN <<>>
        ELSE <<SubSeq(t, 1, n)>> \o Words(SubSeq(t, n + 1, Len(t)))

\* p and q differ only in case, in surrounding whitespace and in runs of
\* inner whitespace
SamePrompt(p, q) == Words(ToLowerCase(p)) = Words(ToLowerCase(q))

\* C16: the number of entries never exceeds maxSize.
C16_SizeBounded == size <= maxSize

\* C17: a set of a new key into a cache of maxSize entries removes one entry
\* of the smallest timestamp and nothing else, then appends the new entry.
C17_EvictsOldest ==
    [][(SetStep /\ Len(cache) = maxSize /\ cacheOp'.key \notin Keys(cache)) =>
          \E i \in 1..Len(cache) :
              /\ \A j \in 1..Len(cache) : cache[j].timestamp >= cache[i].timestamp
              /\ cache' = Append(RemoveAt(cache, i),
                                 [key |-> cacheOp'.key, response |-> cacheOp'.result,
                                  timestamp |-> now])]_vars

\* C18: get never returns the response of an entry of age ttlMs or more; it
\* deletes the expired entry of the key it looks up and, on the fuzzy path,
\* every expired entry it passes before it returns; it deletes nothing else.
C18_NoExpiredResult ==
    [][GetStep =>
          /\ cacheOp'.result # Null =>
                \E i \in 1..Len(cache) :
                    cache[i].response = cacheOp'.result /\ Live(cache[i])
          /\ \A i \in 1..Len(cache) :
                (cache[i].key = cacheOp'.key /\ ~Live(cache[i])) =>
                    cacheOp'.key \notin Keys(cache')
          /\ \A i \in 1..Len(cache) :
                (/\ ~Live(cache[i])
                 /\ \/ cacheOp'.path = "miss" /\ enableFuzzyMatching
                          /\ BNCmp(similarityThreshold, FromInt(1)) < 0
                    \/ cacheOp'.path = "fuzzy"
                          /\ i < PlaceOf(cache, cacheOp'.result))
                => cache[i].key \notin Keys(cache')
          /\ \A i \in 1..Len(cache) :
                Live(cache[i]) => \E j \in 1..Len(cache') : cache'[j] = cache[i]]_vars

\* a fuzzy lookup passed an expired entry, deleted it and returned a later one
C18_Witness ==
    /\ cacheOp.op = "get"
    /\ cacheOp.path = "fuzzy"
    /\ cacheOp.removed # {}
    /\ cacheOp.key \notin cacheOp.removed

\* C19: set(p, R) leaves an entry holding R under the key of p, and a get(q)
\* for a q that differs from p only in case and whitespace returns R from
\* that entry while it is live, whatever other entries there are.
C19_RoundTrip ==
    [][/\ SetStep =>
            \E i \in 1..Len(cache') :
                /\ cache'[i] = [key |-> cacheOp'.key, response |-> cacheOp'.result,
                                timestamp |-> now]
                /\ SamePrompt(cache'[i].key, cacheOp'.prompt)
                /\ \A j \in 1..Len(cache') : j # i => cache'[j].key # cache'[i].key
       /\ GetStep =>
            \A i \in 1..Len(cache) :
                (Live(cache[i]) /\ SamePrompt(cache[i].key, cacheOp'.prompt)) =>
                    /\ cacheOp'.result = cache[i].response
                    /\ cacheOp'.path = "exact"
                    /\ cache' = cache]_vars

\* a prompt that is not its own key hit its entry although an entry before
\* it in the map is similar enough for a fuzzy hit
C19_Witness ==
    /\ cacheOp.op = "get"
    /\ cacheOp.path = "exact"
    /\ cacheOp.prompt # cacheOp.key
    /\ enableFuzzyMatching
    /\ \E i \in 1..Len(cache) :
          /\ i < PlaceOf(cache, cacheOp.result)
          /\ Live(cache[i])
          /\ FGeq(calculateSimilarity(cacheOp.key, cache[i].key), similarityThreshold)

\* the live entries of the cache that may answer a fuzzy lookup of key
Candidates(key) ==
    {i \in 1..Len(cache) :
        /\ Live(cache[i])
        /\ FGeq(calculateSimilarity(key, cache[i].key), similarityThreshold)}
\* the live entries of the cache at edit distance d from key
AtDistance(key, d) ==
    {i \in 1..Len(cache) :
        Live(cache[i]) /\ levenshteinDistance(key, cache[i].key) = d}
\* the live entries of the cache within a tenth of the longer length from key
WithinTenth(key) ==
    {i \in 1..Len(cache) :
        /\ Live(cache[i])
        /\ cache[i].key # <<>>
        /\ key # <<>>
        /\ 10 * levenshteinDistance(key, cache[i].key)
              <= Max(Len(key), Len(cache[i].key))}
\* the step is a get that finds no live entry under its key, with fuzzy
\* matching on
FuzzyStep ==
    /\ GetStep
    /\ \A i \in 1..Len(cache) : cache[i].key = cacheOp'.key => ~Live(cache[i])
    /\ enableFuzzyMatching
    /\ BNCmp(similarityThreshold, FromInt(1)) < 0
\* what a fuzzy lookup returns: the response of the first candidate in map
\* order, null for none
FirstCandidate ==
    IF Candidates(cacheOp'.key) = {}
    THEN cacheOp'.result = Null /\ cacheOp'.path = "miss"
    ELSE /\ cacheOp'.path = "fuzzy"
         /\ cacheOp'.result =
               cache[CHOOSE i \in Candidates(cacheOp'.key) :
                        \A j \in Candidates(cacheOp'.key) : i <= j].response

\* C20 as stated: a fuzzy lookup returns the first candidate in map order,
\* and with threshold 0.9 every live key one edit away from the prompt is hit.
C20_FuzzyLookup ==
    [][FuzzyStep =>
          /\ FirstCandidate
          /\ (similarityThreshold = FDivInt(9, 10) /\ AtDistance(cacheOp'.key, 1) # {})
                => cacheOp'.result # Null]_vars

\* C20, amended: a fuzzy lookup returns the first candidate in map order; with
\* threshold 0.9 it hits exactly when some live key is within a tenth of the
\* longer length in edit distance, which a key one edit away is only from
\* ten characters on.
C20_FuzzyLookupByLength ==
    [][FuzzyStep =>
          /\ FirstCandidate
          /\ similarityThreshold = FDivInt(9, 10) =>
                (cacheOp'.result # Null <=> WithinTenth(cacheOp'.key) # {})]_vars

\* a fuzzy lookup returned the first entry that reaches the threshold although
\* a later live entry is more similar to the prompt
C20_Witness ==
    /\ cacheOp.op = "get"
    /\ cacheOp.path = "fuzzy"
    /\ \E i \in 1..Len(cache) :
          /\ i > PlaceOf(cache, cacheOp.result)
          /\ Live(cache[i])
          /\ BNCmp(calculateSimilarity(cacheOp.key, cache[i].key),
                   calculateSimilarity(cacheOp.key,
                                       cache[PlaceOf(cache, cacheOp.result)].key)) > 0

(***************************************************************************)
(* Properties of the RequestBatcher: timers and dispatch cycles.           *)
(***************************************************************************)
\* the step is an addRequest call
EnqueueStep == idCounter' = idCounter + 1
\* the step ends the processBatchFn call numbered c
Completes(c) == calls[c].status = "pending" /\ calls'[c].status # "pending"
\* the queue with the item the addRequest step appends
QueueWithNew ==
    Append(queue, [id |-> idCounter + 1, prompt |-> submitted'[idCounter + 1].prompt,
                   options |-> submitted'[idCounter + 1].options])

\* C28: an addRequest that brings the queue to maxBatchSize with no dispatch
\* in flight leaves no timer of before pending (a timer it armed itself
\* included), and has removed the batch and called processBatchFn within the
\* step; a timer once removed is never pending again.
C28_SizeTrigger ==
    [][/\ (EnqueueStep /\ ~isProcessing /\ Len(queue) + 1 >= maxBatchSize) =>
            /\ \A t \in timers' : t \notin timers /\ t.delay = 0
            /\ Len(calls') = Len(calls) + 1
            /\ calls'[Len(calls')].ids =
                  [i \in 1..maxBatchSize |-> QueueWithNew[i].id]
            /\ queue' = SubSeq(QueueWithNew, maxBatchSize + 1, Len(QueueWithNew))
       /\ \A t \in timers' \ timers : t.handle > timerSeq]_vars

\* the first batch was started by the size trigger, which cancelled the delay
\* timer of the first request
C28_Witness ==
    /\ Len(calls) = 1
    /\ calls[1].status = "pending"
    /\ Len(calls[1].ids) = maxBatchSize
    /\ timerSeq = 1
    /\ timers = {}

\* C29 as stated: while a timer is armed the queue holds 1..maxBatchSize-1
\* items.
C29_Accumulating ==
    timers # {} => (Len(queue) >= 1 /\ Len(queue) <= maxBatchSize - 1)

\* C29, amended: while the delay timer of addRequest is armed the queue holds
\* 1..maxBatchSize-1 items; while the zero-delay timer of a follow-up cycle is
\* armed it holds at least one item, with no upper bound.
C29_AccumulatingDelayTimer ==
    \A t \in timers :
        /\ t.delay = maxDelayMs => (Len(queue) >= 1 /\ Len(queue) <= maxBatchSize - 1)
        /\ t.delay = 0 => Len(queue) >= 1

\* a follow-up timer is armed over a queue that already holds a full batch
C29_Witness ==
    /\ \E t \in timers : t.delay = 0
    /\ Len(queue) >= maxBatchSize
    /\ ~isProcessing

\* C30: an addRequest during a dispatch only appends its item (no timer, no
\* dispatch); the step that ends a processBatchFn call arms exactly one
\* zero-delay timer when items are queued and otherwise leaves the batcher
\* idle: empty queue, no timer, nothing in flight.
C30_FollowUp ==
    [][/\ (EnqueueStep /\ isProcessing) =>
            /\ queue' = QueueWithNew
            /\ timers' = timers
            /\ batchTimer' = batchTimer
            /\ calls' = calls
            /\ isProcessing'
       /\ \A c \in 1..Len(calls) : Completes(c) =>
            /\ ~isProcessing'
            /\ inflight' = {}
            /\ queue' = queue
            /\ IF queue # <<>>
               THEN /\ timers' = timers \cup {[handle |-> timerSeq + 1, delay |-> 0]}
                    /\ timers = {}
                    /\ batchTimer' = timerSeq + 1
               ELSE /\ timers' = {}
                    /\ batchTimer' = NoTimer]_vars

\* a batch has completed while a full batch of later requests was waiting,
\* and the follow-up timer is armed
C30_Witness ==
    /\ \E c \in 1..Len(calls) : calls[c].status # "pending"
    /\ \E t \in timers : t.delay = 0 /\ t.handle = batchTimer
    /\ Len(queue) = maxBatchSize
    /\ \A i \in 1..Len(queue) : queue[i].id > maxBatchSize

(***************************************************************************)
(* Properties of calculateSimilarity.                                      *)
(***************************************************************************)
\* C27: a score lies in [0, 1], is 1 for equal strings, 0 when exactly one
\* string is empty, and is the same with the arguments exchanged.
C27_Similarity ==
    scored.op = "calculateSimilarity" =>
        /\ levenshteinDistance(scored.a, scored.b) <= Max(Len(scored.a), Len(scored.b))
        /\ scored.score # Negative
        /\ BNCmp(scored.score, FromInt(1)) <= 0
        /\ scored.a = scored.b => scored.score = FromInt(1)
        /\ ((scored.a = <<>>) # (scored.b = <<>>)) => scored.score = Zero
        /\ scored.score = calculateSimilarity(scored.b, scored.a)

\* two different non-empty strings of different lengths scored strictly
\* between 0 and 1
C27_Witness ==
    /\ scored.op = "calculateSimilarity"
    /\ scored.a # <<>> /\ scored.b # <<>>
    /\ Len(scored.a) # Len(scored.b)
    /\ scored.score # Zero
    /\ BNCmp(scored.score, FromInt(1)) < 0

(***************************************************************************)
(* Properties of the EfrateClient.                                         *)
(***************************************************************************)
\* the step is the start of a call by caller c
Starts(c) == issued' = issued + 1 /\ clientCalls'[c].n = issued'
\* the provider invocations made for the current call of caller c, directly
\* or as one prompt of a batch, given the client calls cs and the call log
AdapterCalls(cs, log, c) ==
    cs[c].adapter +
    Cardinality({k \in 1..Len(log) :
                    \E i \in 1..Len(log[k].ids) : log[k].ids[i] = cs[c].reqId})
\* the entry a lookup of key hits: the live entry under the key, else the
\* first live entry similar enough; 0 for none
HitIndex(key) ==
    IF \E i \in 1..Len(cache) : cache[i].key = key /\ Live(cache[i])
    THEN CHOOSE i \in 1..Len(cache) : cache[i].key = key
    ELSE IF enableFuzzyMatching /\ BNCmp(similarityThreshold, FromInt(1)) < 0
              /\ Candidates(key) # {}
    THEN CHOOSE i \in Candidates(key) : \A j \in Candidates(key) : i <= j
    ELSE 0
\* the batcher is untouched by the step
BatcherUntouched ==
    /\ queue' = queue
    /\ idCounter' = idCounter
    /\ calls' = calls
    /\ timers' = timers
    /\ inflight' = inflight
\* the limiter is untouched by the step
LimiterUntouched ==
    /\ tokens' = tokens
    /\ lastRefill' = lastRefill
    /\ granted' = granted
    /\ acquires' = acquires

\* C21: a complete() that finds its prompt in the cache returns the cached
\* response within the step of the call, with the limiter and the batcher
\* untouched, no provider call, and the entry it hit still in the cache as
\* it was.
C21_CacheHit ==
    [][\A c \in Callers :
          (/\ Starts(c)
           /\ clientCalls'[c].kind = "complete"
           /\ enableCache
           /\ HitIndex(normalizePrompt(clientCalls'[c].prompt)) # 0) =>
          LET entry == cache[HitIndex(normalizePrompt(clientCalls'[c].prompt))]
          IN  /\ clientCalls'[c].pc = "done"
              /\ clientCalls'[c].outcome = "returned"
              /\ clientCalls'[c].value = entry.response
              /\ clientCalls'[c].acquired = 0
              /\ AdapterCalls(clientCalls', calls', c) = 0
              /\ LimiterUntouched
              /\ BatcherUntouched
              /\ \E i \in 1..Len(cache') : cache'[i] = entry]_vars

\* with limiter and batcher on, a call was answered from the cache while the
\* bucket was empty
C21_Witness ==
    /\ enableRateLimiting /\ enableBatching /\ enableCache
    /\ tokens = Zero
    /\ \E c \in Callers :
          /\ clientCalls[c].kind = "complete"
          /\ clientCalls[c].outcome = "returned"
          /\ clientCalls[c].acquired = 0
          /\ clientCalls[c].reqId = 0
          /\ clientCalls[c].adapter = 0

\* the last response complete() stored under key, or none
LastWritten(key) == written[key][Len(written[key])]

\* the call caller c starts in this step is answered with `response` from
\* the cache: no provider call, no await
AnsweredWith(c, response) ==
    /\ clientCalls'[c].pc = "done"
    /\ clientCalls'[c].outcome = "returned"
    /\ clientCalls'[c].value = response
    /\ AdapterCalls(clientCalls', calls', c) = 0

\* C22 as stated: a complete(p) that starts while a result an earlier
\* complete() stored under p's key is in the cache, stored less than ttlMs
\* ago and with the key never absent since, returns that result without a
\* provider call.
C22_RepeatRequest ==
    [][\A c \in Callers :
          (Starts(c) /\ clientCalls'[c].kind = "complete" /\ enableCache) =>
          LET key == normalizePrompt(clientCalls'[c].prompt)
          IN  \A k \in 1..Len(written[key]) :
                  now - written[key][k].time < ttlMs =>
                      AnsweredWith(c, written[key][k].response)]_vars

\* C22, amended: such a complete(p) returns the result stored last under p's
\* key, which is that of the earlier call unless another call has stored
\* over it, without a provider call.
C22_RepeatRequestLatest ==
    [][\A c \in Callers :
          (Starts(c) /\ clientCalls'[c].kind = "complete" /\ enableCache) =>
          LET key == normalizePrompt(clientCalls'[c].prompt)
          IN  (written[key] # <<>> /\ now - LastWritten(key).time < ttlMs) =>
                  AnsweredWith(c, LastWritten(key).response)]_vars

\* a call was answered from the cache with the later of two different
\* results stored under its key by overlapping calls
C22_Witness ==
    \E c \in Callers :
        /\ clientCalls[c].kind = "complete"
        /\ clientCalls[c].outcome = "returned"
        /\ clientCalls[c].adapter = 0 /\ clientCalls[c].reqId = 0
        /\ LET key == normalizePrompt(clientCalls[c].prompt)
           IN  /\ Len(written[key]) = 2
               /\ written[key][1].response # written[key][2].response
               /\ clientCalls[c].value = written[key][2].response

\* a denied call has thrown the rate-limit error and reached neither the
\* batcher nor the provider; a call that reached one of them with rate
\* limiting on was granted a unit before
DenialState ==
    \A c \in Callers :
        /\ (clientCalls[c].pc = "done" /\ clientCalls[c].acquired = 1
               /\ acquires[c].result = "denied") =>
              /\ clientCalls[c].outcome = "thrown"
              /\ clientCalls[c].value = RateLimitError
              /\ clientCalls[c].reqId = 0
              /\ AdapterCalls(clientCalls, calls, c) = 0
        /\ (enableRateLimiting
               /\ (clientCalls[c].reqId # 0 \/ AdapterCalls(clientCalls, calls, c) > 0)) =>
              /\ clientCalls[c].acquired = 1
              /\ acquires[c].result = "granted"

\* C23: the continuation of a call whose acquireToken was denied throws the
\* rate-limit error and leaves batcher and cache as they were, for complete,
\* chat and embeddings alike; no call reaches the batcher or the provider
\* without a granted unit while rate limiting is on.
C23_Denial ==
    [][/\ \A c \in Callers :
            (/\ Resumable(c)
             /\ acquires[c].result = "denied"
             /\ clientCalls'[c] # clientCalls[c]) =>
                /\ clientCalls'[c] = Thrown(clientCalls[c], RateLimitError)
                /\ BatcherUntouched
                /\ cache' = cache
       /\ DenialState']_vars

\* a complete() was denied with cache and batcher on
C23_Witness ==
    /\ enableCache /\ enableBatching
    /\ \E c \in Callers :
          /\ clientCalls[c].kind = "complete"
          /\ clientCalls[c].outcome = "thrown"
          /\ clientCalls[c].value = RateLimitError

\* the step ends the wait of caller c's complete() for the provider or the
\* batcher
AdapterAnswers(c) ==
    /\ clientCalls[c].kind = "complete"
    /\ clientCalls[c].pc \in {"queued", "adapter"}
    /\ clientCalls'[c].pc = "done"
\* the entry complete() stores for the call of caller c that has returned
EntryFor(c) ==
    [key |-> normalizePrompt(clientCalls'[c].prompt),
     response |-> clientCalls'[c].value, timestamp |-> now]
\* the dispatch that carried the request of caller c, and its place in it
DispatchOf(c) ==
    CHOOSE k \in 1..Len(calls') :
        \E i \in 1..Len(calls'[k].ids) : calls'[k].ids[i] = clientCalls[c].reqId
PlaceIn(c) ==
    CHOOSE i \in 1..Len(calls'[DispatchOf(c)].ids) :
        calls'[DispatchOf(c)].ids[i] = clientCalls[c].reqId

\* C24: an entry appears in the cache only in the step in which a complete()
\* returns a provider result, as that result under the key of that call's
\* prompt; a returning call's entry is in the cache unless a call returning
\* behind it in the same batch stored after it; a complete() that fails
\* throws the error of its batch and leaves the cache as it was.
C24_StoreOnSuccess ==
    [][/\ \A i \in 1..Len(cache') :
            (\A j \in 1..Len(cache) : cache[j] # cache'[i]) =>
                /\ enableCache
                /\ \E c \in Callers :
                      /\ AdapterAnswers(c)
                      /\ clientCalls'[c].outcome = "returned"
                      /\ cache'[i] = EntryFor(c)
       /\ \A c \in Callers :
            (AdapterAnswers(c) /\ clientCalls'[c].outcome = "returned") =>
                /\ clientCalls[c].pc = "queued" =>
                      /\ calls'[DispatchOf(c)].status = "fulfilled"
                      /\ clientCalls'[c].value = calls'[DispatchOf(c)].results[PlaceIn(c)]
                /\ enableCache =>
                      \/ \E i \in 1..Len(cache') : cache'[i] = EntryFor(c)
                      \/ /\ clientCalls[c].pc = "queued"
                         /\ PlaceIn(c) < Len(calls'[DispatchOf(c)].ids)
       /\ \A c \in Callers :
            (AdapterAnswers(c) /\ clientCalls'[c].outcome = "thrown") =>
                /\ cache' = cache
                /\ clientCalls'[c].value \in AdapterErrors
                /\ clientCalls[c].pc = "queued" =>
                      clientCalls'[c].value = calls'[DispatchOf(c)].error]_vars

\* a batched complete() has returned and its result is cached under the
\* normalized form of its prompt
C24_Witness ==
    \E c \in Callers :
        /\ clientCalls[c].kind = "complete"
        /\ clientCalls[c].outcome = "returned"
        /\ clientCalls[c].reqId # 0
        /\ normalizePrompt(clientCalls[c].prompt) # clientCalls[c].prompt
        /\ \E i \in 1..Len(cache) :
              /\ cache[i].key = normalizePrompt(clientCalls[c].prompt)
              /\ cache[i].response = clientCalls[c].value

\* a chat or embeddings call has made at most one acquireToken call and one
\* provider call, none through the batcher, and the provider call only
\* after a grant when rate limiting is on
ChatState ==
    \A c \in Callers :
        clientCalls[c].kind \in ChatKinds =>
            /\ clientCalls[c].acquired <= 1
            /\ clientCalls[c].adapter <= 1
            /\ clientCalls[c].reqId = 0
            /\ clientCalls[c].outcome = "returned" => clientCalls[c].adapter = 1
            /\ (enableRateLimiting /\ clientCalls[c].adapter = 1) =>
                  (clientCalls[c].acquired = 1 /\ acquires[c].result = "granted")

\* C25: every step of a chat or embeddings call leaves the cache and the
\* batcher as they were, and such a call makes at most one acquireToken call
\* followed by one direct provider call.
C25_ChatFrame ==
    [][/\ \A c \in Callers :
            (/\ clientCalls'[c].kind \in ChatKinds
             /\ clientCalls'[c] # clientCalls[c] \/ acquires'[c] # acquires[c]) =>
                /\ cache' = cache
                /\ BatcherUntouched
       /\ ChatState']_vars

\* a chat or embeddings call has returned, with all three features on, while
\* the cache held an entry
C25_Witness ==
    /\ enableCache /\ enableRateLimiting /\ enableBatching
    /\ cache # <<>>
    /\ \E c \in Callers :
          clientCalls[c].kind \in ChatKinds /\ clientCalls[c].outcome = "returned"

\* every call has made at most one acquireToken call and caused at most one
\* provider invocation, and no request was dispatched twice
SingleAttempt ==
    /\ \A c \in Callers :
          /\ clientCalls[c].acquired <= 1
          /\ AdapterCalls(clientCalls, calls, c) <= 1
    /\ \A id \in 1..idCounter :
          Cardinality({k \in 1..Len(calls) :
                          \E i \in 1..Len(calls[k].ids) : calls[k].ids[i] = id}) <= 1

\* C26: a call makes at most one acquireToken call and causes at most one
\* provider invocation, and a call that has failed does nothing more: its
\* record changes only when its caller starts the next call.
C26_NoRetry ==
    [][/\ SingleAttempt'
       /\ \A c \in Callers :
            (clientCalls[c].pc = "done" /\ clientCalls[c].outcome = "thrown") =>
                /\ clientCalls'[c] = clientCalls[c] \/ Starts(c)
                /\ AdapterCalls(clientCalls, calls', c) =
                      AdapterCalls(clientCalls, calls, c)]_vars

\* a call has failed with the provider's error after one grant and one
\* provider invocation
C26_Witness ==
    /\ enableRateLimiting
    /\ \E c \in Callers :
          /\ clientCalls[c].outcome = "thrown"
          /\ clientCalls[c].value \in AdapterErrors
          /\ clientCalls[c].acquired = 1
          /\ AdapterCalls(clientCalls, calls, c) = 1

(***************************************************************************)
(* Properties of the AICache: stores over a key, purges, exact lookups.    *)
(***************************************************************************)
\* C31: a set of a key the map holds removes nothing: the size is unchanged,
\* every other entry keeps its place and content, and the entry of the key
\* keeps its place and holds the new response with the timestamp of the
\* call, so that the next eviction takes another entry whenever one with a
\* smaller timestamp exists.
C31_Overwrite ==
    [][(SetStep /\ cacheOp'.key \in Keys(cache)) =>
          /\ Len(cache') = Len(cache)
          /\ cacheOp'.removed = {}
          /\ \A i \in 1..Len(cache) :
                IF cache[i].key = cacheOp'.key
                THEN /\ cache'[i] = [key |-> cacheOp'.key, response |-> cacheOp'.result,
                                     timestamp |-> now]
                     /\ (\E j \in 1..Len(cache') : cache'[j].timestamp < now) =>
                            OldestIndex(cache') # i
                ELSE cache'[i] = cache[i]]_vars

\* the third set call stored over the first entry of a map of maxSize = 2
\* entries, which was the older one and is now the newer one
C31_Witness ==
    /\ cacheOp.op = "set" /\ stores = 3
    /\ maxSize = 2 /\ Len(cache) = 2
    /\ cache[1].key = cacheOp.key /\ cache[1].response = 3
    /\ cache[2].timestamp < cache[1].timestamp

\* the step is a purgeExpired() call
PurgeStep == cacheOp'.op = "purgeExpired" /\ now' = now /\ stores' = stores
\* the places of c whose entries have an age of ttlMs or more
Aged(c) == {i \in 1..Len(c) : now - c[i].timestamp >= ttlMs}
\* c without the entries at the places in gone, the others in their order
RECURSIVE Without(_, _)
Without(c, gone) ==
    IF c = <<>> THEN <<>>
    ELSE LET front == Without(SubSeq(c, 1, Len(c) - 1), gone)
         IN  IF Len(c) \in gone THEN front ELSE Append(front, c[Len(c)])

\* C32: purgeExpired removes the entries of age ttlMs or more and no other,
\* leaves the live entries as they were and in their order, and returns the
\* number of entries removed, the difference of the sizes; no entry of the
\* map is expired afterwards; the passing of time alone removes nothing, so
\* size counts the expired entries until then.
C32_PurgeExpired ==
    [][/\ PurgeStep =>
            /\ cache' = Without(cache, Aged(cache))
            /\ cacheOp'.result = Cardinality(Aged(cache))
            /\ cacheOp'.result = Len(cache) - Len(cache')
            /\ \A i \in 1..Len(cache') : Live(cache'[i])
       /\ now' # now => cache' = cache]_vars

\* a purge has removed one entry of two and kept the live one
C32_Witness ==
    /\ cacheOp.op = "purgeExpired"
    /\ cacheOp.result = 1
    /\ Len(cache) = 1 /\ Live(cache[1])

\* the options make get an exact lookup
ExactOnly == ~enableFuzzyMatching \/ FGeq(similarityThreshold, FromInt(1))
\* the places of c that hold an expired entry under key
AgedUnder(c, key) == {i \in Aged(c) : c[i].key = key}

\* C33: with enableFuzzyMatching false or similarityThreshold 1, get returns
\* the response of the live entry stored under the normalized prompt and
\* null when there is none, however much a stored key resembles the prompt;
\* it removes the expired entry of that key and no other entry.
C33_ExactOnly ==
    [][(GetStep /\ ExactOnly) =>
          LET key == normalizePrompt(cacheOp'.prompt)
          IN  /\ cacheOp'.key = key
              /\ IF \E i \in 1..Len(cache) : cache[i].key = key /\ Live(cache[i])
                 THEN \E i \in 1..Len(cache) :
                         /\ cache[i].key = key
                         /\ cacheOp'.result = cache[i].response
                         /\ cacheOp'.path = "exact"
                 ELSE cacheOp'.result = Null /\ cacheOp'.path = "miss"
              /\ cache' = Without(cache, AgedUnder(cache, key))]_vars

\* with fuzzy matching on and threshold 1, a prompt one character away from
\* a live key missed, and the expired entry of another key stayed in the map
C33_Witness ==
    /\ enableFuzzyMatching /\ ExactOnly
    /\ cacheOp.op = "get" /\ cacheOp.prompt = Typo /\ cacheOp.result = Null
    /\ \E i, j \in 1..Len(cache) :
          /\ cache[i].key = Plain /\ Live(cache[i])
          /\ ~Live(cache[j])

(***************************************************************************)
(* Properties of the EfrateClient: its flags, its grants, its cache key.   *)
(***************************************************************************)
\* what each flag, off or on, means for the calls made so far
ToggleState ==
    /\ ~enableCache =>
          /\ cache = <<>>
          /\ \A c \in Callers :
                (clientCalls[c].kind = "complete" /\ clientCalls[c].outcome = "returned") =>
                    AdapterCalls(clientCalls, calls, c) = 1
    /\ ~enableRateLimiting =>
          \A c \in Callers :
              /\ clientCalls[c].acquired = 0
              /\ acquires[c] = NoAcquire
              /\ clientCalls[c].value # RateLimitError
    /\ enableRateLimiting =>
          \A c \in Callers :
              clientCalls[c].pc \in {"limiter", "queued", "adapter"} =>
                  clientCalls[c].acquired = 1
    /\ ~enableBatching =>
          /\ queue = <<>> /\ calls = <<>> /\ idCounter = 0
          /\ \A c \in Callers : clientCalls[c].reqId = 0
    /\ enableBatching =>
          \A c \in Callers :
              clientCalls[c].kind = "complete" =>
                  (clientCalls[c].adapter = 0 /\ clientCalls[c].pc # "adapter")

\* C34: with caching off the cache stays empty, no complete() returns in the
\* step of its call and every returned complete() had its own provider
\* invocation; with rate limiting off no acquireToken call is made, the
\* bucket is untouched and no call is denied; with batching off the batcher
\* is untouched and complete() calls the provider directly; a flag that is
\* on has its effect whatever the other two are.
C34_Toggles ==
    [][/\ ToggleState'
       /\ ~enableCache =>
             /\ cache' = cache
             /\ \A c \in Callers :
                   (Starts(c) /\ clientCalls'[c].kind = "complete") =>
                       clientCalls'[c].pc # "done"
       /\ ~enableRateLimiting => LimiterUntouched
       /\ ~enableBatching => BatcherUntouched]_vars

\* with caching off and limiter and batcher on, two complete() calls for one
\* prompt have both returned, each through a batch of its own or shared
C34_Witness ==
    /\ ~enableCache /\ enableRateLimiting /\ enableBatching
    /\ \E c, d \in Callers :
          /\ c # d
          /\ clientCalls[c].prompt = clientCalls[d].prompt
          /\ \A e \in {c, d} :
                /\ clientCalls[e].kind = "complete"
                /\ clientCalls[e].outcome = "returned"
                /\ clientCalls[e].acquired = 1
                /\ AdapterCalls(clientCalls, calls, e) = 1

(***************************************************************************)
(* Properties of the RequestBatcher: stranded items, dispatches in flight. *)
(***************************************************************************)
\* the timer whose handle batchTimer holds is pending in the event loop
TimerArmed == \E t \in timers : t.handle = batchTimer

\* C35: whenever the queue holds an item and no dispatch is in flight, the
\* timer of batchTimer is pending; a timer is pending only while the queue
\* holds an item and no dispatch is in flight, it is the one batchTimer
\* names, and batchTimer never names a timer that is not pending.
C35_NoStranded ==
    /\ (queue # <<>> /\ ~isProcessing) => TimerArmed
    /\ timers # {} => (queue # <<>> /\ ~isProcessing)
    /\ \A t \in timers : t.handle = batchTimer
    /\ batchTimer # NoTimer => TimerArmed

\* after a dispatch that a timer started and a clearQueue, a later request
\* waits in the queue with a fresh timer pending
C35_Witness ==
    /\ Len(calls) >= 1 /\ calls[1].left = 0 /\ Len(calls[1].ids) < maxBatchSize
    /\ \E id \in Ids : \E k \in 1..Len(settled[id]) : settled[id][k].by = 0
    /\ ~isProcessing /\ inflight = {}
    /\ Len(queue) = 1
    /\ TimerArmed

\* the processBatchFn invocations that have not settled
PendingCalls == {k \in 1..Len(calls) : calls[k].status = "pending"}

\* C36: at most one processBatch call is suspended at its await and at most
\* one processBatchFn invocation is unsettled, the one of that call; it is
\* in flight exactly while isProcessing is set; every invocation was made
\* with at least one prompt.
C36_SingleDispatch ==
    /\ Cardinality(inflight) <= 1
    /\ Cardinality(PendingCalls) <= 1
    /\ \A f \in inflight : f.call \in PendingCalls
    /\ PendingCalls # {} => isProcessing
    /\ \A k \in 1..Len(calls) : Len(calls[k].ids) >= 1

\* while one dispatch is in flight the queue has reached maxBatchSize again
\* and no second dispatch was started
C36_Witness ==
    /\ Cardinality(inflight) = 1
    /\ Len(queue) >= maxBatchSize
    /\ timers = {}

(***************************************************************************)
(* Properties of the RateLimiter: the rate it enforces, oversized weights. *)
(***************************************************************************)
\* C37: the weight granted by acquireToken calls since the construction at
\* time 0 never exceeds maxTokens + now * maxTokens / refillTimeMs, whoever
\* the callers are and whatever weights they pass; with no time elapsed that
\* is maxTokens.
C37_RateBound ==
    granted * refillTimeMs <= maxTokens * refillTimeMs + now * maxTokens

\* time has passed, both callers were granted, and the weight granted is
\* exactly the bound
C37_Witness ==
    /\ now > 0
    /\ \A c \in Callers : acquires[c].result = "granted"
    /\ granted > maxTokens
    /\ granted * refillTimeMs = maxTokens * refillTimeMs + now * maxTokens

\* C38: an acquireToken call with a weight above maxTokens is never
\* granted and takes nothing from the bucket.  It is denied within the call
\* when autoWait is off or the computed wait exceeds maxWaitTimeMs;
\* otherwise the caller is suspended for the computed wait, of at least one
\* millisecond, and denied when it resumes after it.
C38_Oversized ==
    [][\A c \in Callers :
          (acquires'[c] # acquires[c] /\ acquires'[c].weight > maxTokens) =>
              /\ acquires'[c].result # "granted"
              /\ granted' = granted
              /\ IF acquires[c].pc = "waiting"
                 THEN /\ now >= acquires[c].wakeAt
                      /\ acquires'[c].pc = "done"
                      /\ acquires'[c].result = "denied"
                      /\ acquires'[c].suspensions = 1
                 ELSE IF autoWait /\ limiterOp'.waitTime <= maxWaitTimeMs
                 THEN /\ acquires'[c].pc = "waiting"
                      /\ acquires'[c].waitTime = limiterOp'.waitTime
                      /\ acquires'[c].waitTime >= 1
                      /\ acquires'[c].wakeAt = now + acquires'[c].waitTime
                 ELSE /\ acquires'[c].pc = "done"
                      /\ acquires'[c].result = "denied"
                      /\ acquires'[c].suspensions = 0]_vars

\* a caller asking for more than maxTokens was suspended for its wait and
\* then denied, while the bucket was full
C38_Witness ==
    \E c \in Callers :
        /\ acquires[c].weight > maxTokens
        /\ acquires[c].suspensions = 1
        /\ acquires[c].result = "denied"
        /\ limiterOp.caller = c /\ limiterOp.step = "resume"
        /\ limiterOp.found = FromInt(maxTokens)

\* C39: with rate limiting on, the provider method invocations started so
\* far, each prompt of a batch counted as one, never outnumber the
\* acquireToken calls granted so far.
C39_CoveredByGrants == enableRateLimiting => invoked <= granted

\* two complete() calls, both granted, have reached the provider as the two
\* prompts of one batch
C39_Witness ==
    /\ enableRateLimiting /\ enableBatching
    /\ invoked = 2 /\ granted = 2
    /\ \E k \in 1..Len(calls) : Len(calls[k].ids) = 2

\* the places of the entries of the map before the step that the map after
\* it does not hold unchanged
Dropped == {i \in 1..Len(cache) : \A j \in 1..Len(cache') : cache'[j] # cache[i]}

\* C40: whether a complete() is answered from the cache, and with which
\* response, is determined by the normalized prompt and the entries of the
\* map alone, whatever options are passed; the lookup of the call removes
\* expired entries and nothing else and leaves every other entry, its
\* timestamp included, at its place; and a store that evicts removes an
\* entry whose timestamp, that of its store, is not above that of any entry
\* it leaves unchanged.
C40_KeyAndAge ==
    [][\A dropped \in {Dropped} :
        /\ \A c \in Callers :
            (Starts(c) /\ clientCalls'[c].kind = "complete" /\ enableCache) =>
                \A key \in {normalizePrompt(clientCalls'[c].prompt)} :
                \A h \in {HitIndex(key)} :
                    /\ h # 0 => AnsweredWith(c, cache[h].response)
                    /\ h = 0 => clientCalls'[c].pc # "done"
                    /\ dropped \subseteq Aged(cache)
                    /\ cache' = Without(cache, dropped)
        /\ (\E c \in Callers : AdapterAnswers(c) /\ clientCalls'[c].outcome = "returned") =>
             \A i \in dropped :
                 \/ cache[i].key \in Keys(cache')
                 \/ \A j \in (1..Len(cache)) \ dropped :
                        cache[i].timestamp <= cache[j].timestamp]_vars

\* a response stored by a call with options "o1" was returned to a call with
\* options "o2" for the same prompt, and the store of a later call evicted
\* that entry, the older one, although it had been used last
C40_Witness ==
    \E c, d \in Callers :
        /\ c # d
        /\ clientCalls[c].kind = "complete" /\ clientCalls[c].options = "o2"
        /\ clientCalls[c].outcome = "returned" /\ clientCalls[c].adapter = 0
        /\ clientCalls[c].n = 3
        /\ clientCalls[d].kind = "complete" /\ clientCalls[d].n = 4
        /\ clientCalls[d].outcome = "returned" /\ clientCalls[d].adapter = 1
        /\ Len(cache) = 2
        /\ normalizePrompt(clientCalls[c].prompt) \notin Keys(cache)
        /\ normalizePrompt(clientCalls[d].prompt) = cache[2].key
        /\ cache[1].timestamp < cache[2].timestamp
====
